---- MODULE Spec2Model ----
(***************************************************************************)
(* State-machine model of the jobsuche-agent pipeline (src/scripts):       *)
(*   jobsuche_api.py          Search Fetcher, Detail Fetcher, Aggregator   *)
(*   past_job_suggestions.py  History Store (prune / append)               *)
(*   llm_agent.py             Shortlist and Selection stages               *)
(*   main.py                  Deep-Dive Fetcher and the pipeline           *)
(*                                                                         *)
(* Python strings that the code inspects character by character (reference *)
(* identifiers, publication dates) are sequences of one-character strings. *)
(* Python dicts are records; an absent key is a field that is not in the   *)
(* record's DOMAIN.  Opaque strings (search terms) are TLA+ strings.       *)
(***************************************************************************)
EXTENDS Integers, Sequences, FiniteSets, TLC

VARIABLES
    terms,        \* fetch_all_matching_jobs: the effective list of search terms
    term_i,       \* index in terms of the term being paged (the for loop)
    page,         \* page number of the next request of the current term
    total_pages,  \* page limit of the current term, 0 standing for None
    raw_jobs,     \* listings accumulated over all terms and pages
    query_count,  \* number of successful page requests
    requests,     \* log of the fetch_jobs_page calls made so far
    term_total,   \* per term: max_results of its first successful response, -1 before
    last_fetch,   \* the latest fetch_jobs_page call: its JSON payload and what it returned
    deduped,      \* the merge dict, as a sequence of (key, job) in insertion order
    out_summary,  \* the returned summary (NoSummary before the return)
    agg_pc,       \* position in fetch_all_matching_jobs
    site,         \* the detail endpoint: what a GET for each identifier results in
    hist_file,    \* the history file on disk
    past_jobs,    \* cleanup_inactive_jobs: the entries loaded from the file
    active_jobs,  \* cleanup_inactive_jobs: the entries kept so far
    prune_log,    \* the calls of cleanup_inactive_jobs that returned: result and file after
    hist_pc,      \* position in cleanup_inactive_jobs
    save_log,     \* the calls of save_suggested_jobs: matches, file before, file after
    pool,         \* the ThreadPoolExecutor's tasks, in submission order
    pool_next,    \* index of the next result the map iterator hands to the caller
    run_pc,       \* position in generate_report ("none": no pipeline run)
    run_end,      \* how the run ended ("" while it runs)
    exit_code,    \* exit status of the process, -1 while it runs
    past_suggestions,      \* read_profile_context: the history handed to the prompt
    stage1_log,   \* shortlist_relevant_jobs: the attempts made, in order
    stage2_log,   \* select_best_matches: the attempts made, in order
    shortlist,    \* the identifiers returned by the Shortlist Stage
    deep_dive_candidates,  \* fetch_deep_dive_details: the candidates collected
    final_jobs,   \* the matches returned by the Selection Stage
    reports,      \* the report files written
    trace         \* the stages of the pipeline run entered so far, in order

aggVars == <<terms, term_i, page, total_pages, raw_jobs, query_count,
             requests, term_total, last_fetch, deduped, out_summary, agg_pc>>

histVars == <<hist_file, past_jobs, active_jobs, prune_log, hist_pc, save_log>>

poolVars == <<pool, pool_next>>

runVars == <<run_pc, run_end, exit_code, past_suggestions, stage1_log, stage2_log,
             shortlist, deep_dive_candidates, final_jobs, reports, trace>>

vars == <<aggVars, site, histVars, poolVars, runVars>>

-----------------------------------------------------------------------------
(* Bounds of the model *)

MaxRaw == 3        \* listings accumulated in one aggregation run
MaxPerPage == 1    \* listings returned by one page of the search endpoint
MaxMerge == 4      \* listings in a sequence handed to the merge step on its own
MaxHist == 3       \* entries in the history file before a prune
MaxPruneCalls == 2 \* consecutive calls of cleanup_inactive_jobs
MaxSaveCalls == 2      \* calls of save_suggested_jobs followed on their own
MaxFileLen == 3        \* entries in the history file after an append that is followed
MaxTasks == 12         \* tasks handed to one worker pool (more than the pool has workers)

-----------------------------------------------------------------------------
(* Generic helpers: Python dict.get, str.strip, string comparison *)

Min(a, b) == IF a < b THEN a ELSE b
Max(a, b) == IF a > b THEN a ELSE b

\* d.get(k, default)
Get(d, k, default) == IF k \in DOMAIN d THEN d[k] ELSE default

\* a dict holding none of the keys the code reads
EmptyObj == [unread |-> 0]

\* the characters str.strip() removes (those the model's strings use)
Whitespace == {" "}

RECURSIVE LStrip(_)
LStrip(s) == IF s # <<>> /\ Head(s) \in Whitespace THEN LStrip(Tail(s)) ELSE s

RECURSIVE RStrip(_)
RStrip(s) ==
    IF s # <<>> /\ s[Len(s)] \in Whitespace
    THEN RStrip(SubSeq(s, 1, Len(s) - 1))
    ELSE s

\* s.strip()
strip(s) == RStrip(LStrip(s))

Digits == {"0", "1", "2", "3", "4", "5", "6", "7", "8", "9"}

DigitVal(c) ==
    CASE c = "0" -> 0 [] c = "1" -> 1 [] c = "2" -> 2 [] c = "3" -> 3
      [] c = "4" -> 4 [] c = "5" -> 5 [] c = "6" -> 6 [] c = "7" -> 7
      [] c = "8" -> 8 [] c = "9" -> 9

DigitChar(n) ==
    CASE n = 0 -> "0" [] n = 1 -> "1" [] n = 2 -> "2" [] n = 3 -> "3"
      [] n = 4 -> "4" [] n = 5 -> "5" [] n = 6 -> "6" [] n = 7 -> "7"
      [] n = 8 -> "8" [] n = 9 -> "9"

\* code point order of the characters of a normalized date: "-" < "0" < ... < "9"
Ord(c) == IF c = "-" THEN 45 ELSE 48 + DigitVal(c)

\* a > b for Python strings: lexicographic by code point
RECURSIVE StrGT(_, _)
StrGT(a, b) ==
    IF a = <<>> THEN FALSE
    ELSE IF b = <<>> THEN TRUE
    ELSE IF Head(a) # Head(b) THEN Ord(Head(a)) > Ord(Head(b))
    ELSE StrGT(Tail(a), Tail(b))

-----------------------------------------------------------------------------
(* parse_date: datetime.strptime(date_str[:10], "%Y-%m-%d").date().isoformat() *)

RECURSIVE NumVal(_)
NumVal(s) == IF s = <<>> THEN 0 ELSE 10 * NumVal(SubSeq(s, 1, Len(s) - 1)) + DigitVal(s[Len(s)])

\* %Y is \d\d\d\d
IsYearText(s) == Len(s) = 4 /\ \A i \in 1..4 : s[i] \in Digits

\* %m is 1[0-2]|0[1-9]|[1-9]
IsMonthText(s) ==
    \/ Len(s) = 2 /\ s[1] = "1" /\ s[2] \in {"0", "1", "2"}
    \/ Len(s) = 2 /\ s[1] = "0" /\ s[2] \in Digits \ {"0"}
    \/ Len(s) = 1 /\ s[1] \in Digits \ {"0"}

\* %d is 3[0-1]|[1-2]\d|0[1-9]|[1-9]| [1-9]
IsDayText(s) ==
    \/ Len(s) = 2 /\ s[1] = "3" /\ s[2] \in {"0", "1"}
    \/ Len(s) = 2 /\ s[1] \in {"1", "2"} /\ s[2] \in Digits
    \/ Len(s) = 2 /\ s[1] = "0" /\ s[2] \in Digits \ {"0"}
    \/ Len(s) = 1 /\ s[1] \in Digits \ {"0"}
    \/ Len(s) = 2 /\ s[1] = " " /\ s[2] \in Digits \ {"0"}

DayVal(s) == IF s[1] = " " THEN DigitVal(s[2]) ELSE NumVal(s)

IsLeap(y) == (y % 4 = 0 /\ y % 100 # 0) \/ y % 400 = 0

DaysInMonth(y, m) ==
    IF m = 2 THEN (IF IsLeap(y) THEN 29 ELSE 28)
    ELSE IF m \in {4, 6, 9, 11} THEN 30 ELSE 31

Pad2(n) == <<DigitChar(n \div 10), DigitChar(n % 10)>>

Pad4(n) == <<DigitChar(n \div 1000), DigitChar((n \div 100) % 10),
             DigitChar((n \div 10) % 10), DigitChar(n % 10)>>

\* date.isoformat()
isoformat(y, m, d) == Pad4(y) \o <<"-">> \o Pad2(m) \o <<"-">> \o Pad2(d)

\* strptime(t, "%Y-%m-%d") followed by isoformat(); <<>> where it raises ValueError
strptime_iso(t) ==
    LET dashes == {i \in 1..Len(t) : t[i] = "-"}
    IN  IF Cardinality(dashes) # 2 THEN <<>>
        ELSE LET i1 == CHOOSE i \in dashes : \A j \in dashes : i <= j
                 i2 == CHOOSE i \in dashes : \A j \in dashes : i >= j
                 ys == SubSeq(t, 1, i1 - 1)
                 ms == SubSeq(t, i1 + 1, i2 - 1)
                 ds == SubSeq(t, i2 + 1, Len(t))
             IN  IF ~(IsYearText(ys) /\ IsMonthText(ms) /\ IsDayText(ds)) THEN <<>>
                 ELSE LET y == NumVal(ys)
                          m == NumVal(ms)
                          d == DayVal(ds)
                      IN  IF y < 1 \/ d > DaysInMonth(y, m) THEN <<>>
                          ELSE isoformat(y, m, d)

parse_date(date_str) ==
    IF date_str = <<>> THEN <<>>
    ELSE strptime_iso(SubSeq(date_str, 1, Min(10, Len(date_str))))

-----------------------------------------------------------------------------
(* Listings of the search endpoint *)

RefA    == <<"A">>
RefApad == <<" ", "A", " ">>
RefB    == <<"B">>
RefBlank == <<" ">>

Date0101  == <<"2", "0", "2", "4", "-", "0", "1", "-", "0", "1">>
Date0105  == <<"2", "0", "2", "4", "-", "0", "1", "-", "0", "5">>
Date15    == <<"2", "0", "2", "4", "-", "1", "-", "5">>
Date0109  == <<"2", "0", "2", "4", "-", "0", "1", "-", "0", "9">>
Date0109T == <<"2", "0", "2", "4", "-", "0", "1", "-", "0", "9", "T", "0", "8">>
Date0230  == <<"2", "0", "2", "4", "-", "0", "2", "-", "3", "0">>

\* the records the search endpoint can return (before fetch_jobs_page tags them)
Catalogue == {
    [refnr |-> RefA,     aktuelleVeroeffentlichungsdatum |-> Date0101],
    [refnr |-> RefA,     aktuelleVeroeffentlichungsdatum |-> Date0105],
    [refnr |-> RefApad,  aktuelleVeroeffentlichungsdatum |-> Date15],
    [refnr |-> RefB,     aktuelleVeroeffentlichungsdatum |-> <<>>],
    [refnr |-> RefB,     aktuelleVeroeffentlichungsdatum |-> Date0230],
    [refnr |-> <<>>,     aktuelleVeroeffentlichungsdatum |-> Date0109],
    [refnr |-> RefBlank, aktuelleVeroeffentlichungsdatum |-> Date0109T],
    [aktuelleVeroeffentlichungsdatum |-> Date0105] }

\* the records the endpoint returns while the Aggregator is paging
ServerListings == {
    [refnr |-> RefA,    aktuelleVeroeffentlichungsdatum |-> Date0101],
    [refnr |-> RefApad, aktuelleVeroeffentlichungsdatum |-> Date15] }

\* the values of maxErgebnisse the endpoint reports
Totals == {0, 1, 100, 101, 201}

\* the values of search.terms in the configuration (<<>> also stands for an absent key,
\* whose default [""] the code then replaces by [""] again)
TermConfigs == {<<>>, <<"ki">>, <<"ki", "data">>}

RECURSIVE SeqsUpTo(_, _)
SeqsUpTo(S, n) ==
    IF n = 0 THEN {<<>>}
    ELSE LET shorter == SeqsUpTo(S, n - 1)
         IN  shorter \cup {Append(q, x) : q \in {r \in shorter : Len(r) = n - 1}, x \in S}

PageSize == 100

\* the JSON bodies of the search endpoint: each of the two fields may be absent
Payloads ==
    LET lists == SeqsUpTo(ServerListings, MaxPerPage)
    IN  {[stellenangebote |-> l, maxErgebnisse |-> t] : l \in lists, t \in Totals}
        \cup {[stellenangebote |-> l] : l \in lists}
        \cup {[maxErgebnisse |-> t] : t \in Totals}

-----------------------------------------------------------------------------
(* Search Fetcher and merge *)

\* job["_query_term"] = what
Tag(job, what) == ("_query_term" :> what) @@ job

\* variant: the reported total is used whenever the field is there
fetch_jobs_page_strict(payload, what) ==
    LET jobs == Get(payload, "stellenangebote", <<>>)
        max_results == IF "maxErgebnisse" \in DOMAIN payload
                       THEN payload.maxErgebnisse ELSE Len(jobs)
    IN  [jobs |-> [i \in 1..Len(jobs) |-> Tag(jobs[i], what)],
         max_results |-> max_results]

\* fetch_jobs_page, from the parsed JSON payload on
fetch_jobs_page(payload, what) ==
    LET jobs == Get(payload, "stellenangebote", <<>>)
        reported == Get(payload, "maxErgebnisse", 0)
        max_results == IF reported # 0 THEN reported ELSE Len(jobs)
    IN  [jobs |-> [i \in 1..Len(jobs) |-> Tag(jobs[i], what)],
         max_results |-> max_results]

\* a response holding all of the listings q on one page, and its fetch
OnePage(q) == [stellenangebote |-> q, maxErgebnisse |-> Len(q)]

FetchOf(payload, what) ==
    [kind |-> "ok", payload |-> payload, ret |-> fetch_jobs_page(payload, what)]

PubDate(job) == parse_date(Get(job, "aktuelleVeroeffentlichungsdatum", <<>>))

\* variant: the later-seen listing wins on equal dates
get_latest_job_version_ge(existing, candidate) ==
    IF ~StrGT(PubDate(existing), PubDate(candidate)) THEN candidate ELSE existing

get_latest_job_version(existing, candidate) ==
    IF StrGT(PubDate(candidate), PubDate(existing)) THEN candidate ELSE existing

\* variant: the identifier is used untrimmed
MergeKey_untrimmed(job) == Get(job, "refnr", <<>>)

\* (job.get("refnr") or "").strip()
MergeKey(job) == strip(Get(job, "refnr", <<>>))

\* variant: the listing seen last replaces the one merged before
MergeJob_lastWins(dd, job) ==
    LET refnr == MergeKey(job)
    IN  IF refnr = <<>> THEN dd
        ELSE IF \E i \in 1..Len(dd) : dd[i].key = refnr
        THEN LET i == CHOOSE i \in 1..Len(dd) : dd[i].key = refnr
             IN  [dd EXCEPT ![i].job = job]
        ELSE Append(dd, [key |-> refnr, job |-> job])

\* one iteration of the merge loop over raw_jobs
MergeJob(dd, job) ==
    LET refnr == MergeKey(job)
    IN  IF refnr = <<>> THEN dd
        ELSE IF \E i \in 1..Len(dd) : dd[i].key = refnr
        THEN LET i == CHOOSE i \in 1..Len(dd) : dd[i].key = refnr
             IN  [dd EXCEPT ![i].job = get_latest_job_version(@, job)]
        ELSE Append(dd, [key |-> refnr, job |-> job])

RECURSIVE MergeAll(_, _)
MergeAll(dd, jobs) ==
    IF jobs = <<>> THEN dd ELSE MergeAll(MergeJob(dd, Head(jobs)), Tail(jobs))

Dedup(jobs) == MergeAll(<<>>, jobs)

\* a JSON string in a place where the code tests for an object: the place
\* name of a listing, of a summary and of a candidate
Text(s) == [str |-> s]

\* isinstance(v, dict), for a value that is an object or a Text
isinstance_dict(v) == "str" \notin DOMAIN v

\* the projection of a merged listing to a CandidateSummary
Summarize(job) ==
    [titel |-> Get(job, "titel", ""),
     beruf |-> Get(job, "beruf", ""),
     arbeitgeber |-> Get(job, "arbeitgeber", ""),
     refnr |-> Get(job, "refnr", <<>>),
     arbeitsort |-> Get(Get(job, "arbeitsort", EmptyObj), "ort", Text("")),
     region |-> Get(Get(job, "arbeitsort", EmptyObj), "region", ""),
     entfernung_km |-> Get(Get(job, "arbeitsort", EmptyObj), "entfernung", ""),
     published_api |-> PubDate(job),
     query_term |-> Get(job, "_query_term", "")]

NoSummary ==
    [query_terms |-> <<>>, query_count |-> 0, raw_result_count |-> 0,
     deduped_count |-> 0, candidate_count |-> 0, candidates |-> <<>>]

\* the Aggregator before it is called
InitAggIdle ==
    /\ terms = <<"">>
    /\ term_i = 1
    /\ page = 1
    /\ total_pages = 0
    /\ raw_jobs = <<>>
    /\ query_count = 0
    /\ requests = <<>>
    /\ term_total = <<-1>>
    /\ last_fetch = [kind |-> "none"]
    /\ deduped = <<>>
    /\ out_summary = NoSummary
    /\ agg_pc = "idle"

\* terms = search_config.get("terms", [""]); if not terms: terms = [""]
EffectiveTerms(cfg) == IF cfg = <<>> THEN <<"">> ELSE cfg

\* variant: floor instead of ceiling
PageLimit_floor(max_results) == Max(1, max_results \div PageSize)

\* total_pages = max(1, (max_results + 100 - 1) // 100)
PageLimit(max_results) == Max(1, (max_results + PageSize - 1) \div PageSize)

-----------------------------------------------------------------------------
(* Detail Fetcher *)

RefX == <<"X">>
RefY == <<"Y">>

\* What a GET of a detail page can result in.  urlopen raises URLError when the
\* request cannot be sent and HTTPError on an error status; a timeout or reset
\* while the status line or the body is read (h.getresponse(), response.read())
\* surfaces as TimeoutError / ConnectionResetError, which are not URLErrors.
SiteOutcomes == {
    [kind |-> "URLError", message |-> "<urlopen error timed out>"],
    [kind |-> "HTTPError", message |-> "HTTP Error 404: Not Found"],
    [kind |-> "TimeoutError", message |-> "The read operation timed out"],
    [kind |-> "ok", status |-> 200, html |-> [tag |-> FALSE]],
    [kind |-> "ok", status |-> 203, html |-> [tag |-> TRUE, payload |-> [json |-> "malformed"]]],
    [kind |-> "ok", status |-> 200, html |-> [tag |-> TRUE, payload |-> [json |-> "array"]]],
    [kind |-> "ok", status |-> 200,
     html |-> [tag |-> TRUE, payload |-> [json |-> "object", obj |-> EmptyObj]]],
    [kind |-> "ok", status |-> 200,
     html |-> [tag |-> TRUE, payload |-> [json |-> "object", obj |->
                 [jobdetail |-> [stellenangebotsBeschreibung |-> "",
                                 vertragsdauer |-> "UNBEFRISTET"]]]]],
    [kind |-> "ok", status |-> 200,
     html |-> [tag |-> TRUE, payload |-> [json |-> "object", obj |->
                 [jobdetail |-> [stellenangebotsBeschreibung |-> "Wir suchen",
                                 datumErsteVeroeffentlichung |-> Date0105,
                                 aenderungsdatum |-> "2024-01-06T10:00:00",
                                 stellenlokationen |-> <<[adresse |-> [plz |-> <<"1">>, ort |-> <<>>]],
                                                         EmptyObj>>]]]]] }

\* the site before any detail page is looked at (specifications without detail fetches)
NoSite == [r \in {} |-> [kind |-> "URLError", message |-> ""]]

\* urllib.parse.quote on the characters of the model's identifiers
quote(refnr) ==
    LET QuoteChar(c) == IF c = " " THEN <<"%", "2", "0">> ELSE <<c>>
        RECURSIVE Go(_)
        Go(q) == IF q = <<>> THEN <<>> ELSE QuoteChar(Head(q)) \o Go(Tail(q))
    IN  Go(refnr)

JOB_DETAIL_BASE == "https://www.arbeitsagentur.de/jobsuche/jobdetail/"

\* the exception classes fetch_job_details catches around _fetch_text
CaughtByFetchJobDetails == {"HTTPError", "URLError"}

\* variant: malformed JSON in the script tag is not caught
_extract_angular_state_strict(html) ==
    IF ~html.tag THEN [raised |-> FALSE, state |-> [json |-> "object", obj |-> EmptyObj]]
    ELSE IF html.payload.json = "malformed" THEN [raised |-> TRUE]
    ELSE [raised |-> FALSE, state |-> html.payload]

\* the JSON value of the ng-state script tag, {} when the tag is absent or
\* its content is not JSON
_extract_angular_state(html) ==
    IF ~html.tag THEN [raised |-> FALSE, state |-> [json |-> "object", obj |-> EmptyObj]]
    ELSE IF html.payload.json = "malformed"
    THEN [raised |-> FALSE, state |-> [json |-> "object", obj |-> EmptyObj]]
    ELSE [raised |-> FALSE, state |-> html.payload]

\* f"{plz} {ort}".strip() for every location with a plz or an ort
Arbeitsorte(locs) ==
    LET Adr(loc) == Get(loc, "adresse", EmptyObj)
        Plz(loc) == Get(Adr(loc), "plz", <<>>)
        Ort(loc) == Get(Adr(loc), "ort", <<>>)
        named == SelectSeq(locs, LAMBDA loc : Plz(loc) # <<>> \/ Ort(loc) # <<>>)
    IN  [i \in 1..Len(named) |-> strip(Plz(named[i]) \o <<" ">> \o Ort(named[i]))]

\* fetch_job_details on a GET with the given outcome: [raised |-> TRUE] when an
\* exception leaves the function, else the returned dict
fetch_job_details(refnr, outcome) ==
    LET out == [detail_url |-> [base |-> JOB_DETAIL_BASE, refnr |-> quote(refnr)],
                detail_http_status |-> 0,
                detail_error |-> "",
                description_full |-> "",
                published_detail |-> <<>>,
                modified_detail |-> "",
                vertragsdauer_detail |-> "",
                detail_arbeitsorte |-> <<>>]
    IN  IF outcome.kind \in CaughtByFetchJobDetails
        THEN [raised |-> FALSE, out |-> [out EXCEPT !.detail_error = outcome.message]]
        ELSE IF outcome.kind # "ok" THEN [raised |-> TRUE]
        ELSE LET ex == _extract_angular_state(outcome.html)
             IN  IF ex.raised \/ ex.state.json # "object" THEN [raised |-> TRUE]
                 ELSE LET detail == Get(ex.state.obj, "jobdetail", EmptyObj)
                      IN  [raised |-> FALSE,
                           out |-> [out EXCEPT
                              !.detail_http_status = outcome.status,
                              !.description_full = Get(detail, "stellenangebotsBeschreibung", ""),
                              !.published_detail =
                                  parse_date(Get(detail, "datumErsteVeroeffentlichung", <<>>)),
                              !.modified_detail = Get(detail, "aenderungsdatum", ""),
                              !.vertragsdauer_detail = Get(detail, "vertragsdauer", ""),
                              !.detail_arbeitsorte =
                                  Arbeitsorte(Get(detail, "stellenlokationen", <<>>))]]

-----------------------------------------------------------------------------
(* Worker pool: ThreadPoolExecutor(max_workers=10) and executor.map *)

\* variant: the pool has a worker for every task handed to it
MAX_WORKERS_perTask == MaxTasks

MAX_WORKERS == 10

NotCalled == [called |-> FALSE]

\* executor.map(fn, items): one queued task per item, in order
Submit(items) ==
    [i \in 1..Len(items) |->
        [item |-> items[i], st |-> "queued", detail |-> NotCalled, res |-> [kind |-> "none"]]]

Running == {i \in 1..Len(pool) : pool[i].st = "running"}

Queued == {i \in 1..Len(pool) : pool[i].st = "queued"}

PoolIdle == pool = <<>> /\ pool_next = 1

\* no pipeline run: the functions are called on their own
RunIdle ==
    /\ run_pc = "none"
    /\ run_end = ""
    /\ exit_code = -1
    /\ past_suggestions = [kind |-> "unset"]
    /\ stage1_log = <<>>
    /\ stage2_log = <<>>
    /\ shortlist = <<>>
    /\ deep_dive_candidates = <<>>
    /\ final_jobs = <<>>
    /\ reports = <<>>
    /\ trace = <<>>

\* a worker thread marks the task it has taken as running. The workers take
\* the tasks from the queue oldest first, but a worker that has taken a task
\* marks it running only later, so a later task may be running while an older
\* one is still pending in the hands of its worker. Every running task and
\* every pending task older than the one started occupies a worker.
WorkerStart ==
    /\ \E i \in Queued :
         /\ Cardinality(Running) + Cardinality({j \in Queued : j < i}) < MAX_WORKERS
         /\ pool' = [pool EXCEPT ![i].st = "running"]
    /\ UNCHANGED <<pool_next, aggVars, site, histVars, runVars>>

\* the map iterator, left by the exception of a task, cancels the futures it
\* has not yielded one at a time, the last submitted first; cancelling a
\* running or finished task changes nothing, so the next task whose state
\* changes is the pending one submitted last
CancelQueued(p) ==
    IF \E i \in 1..Len(p) : p[i].st = "queued"
    THEN LET k == CHOOSE k \in 1..Len(p) :
                      /\ p[k].st = "queued"
                      /\ \A j \in 1..Len(p) : p[j].st = "queued" => j <= k
         IN  [p EXCEPT ![k].st = "cancelled"]
    ELSE p

-----------------------------------------------------------------------------
(* History Store: cleanup_inactive_jobs *)

HistEntries == {
    [date |-> "2024-01-02 08:00", company |-> "c", role |-> "r", refnr |-> RefX],
    [date |-> "2024-01-02 08:00", company |-> "c", role |-> "r", refnr |-> RefY],
    [date |-> "2024-01-02 08:00", company |-> "c", role |-> "r", refnr |-> <<>>],
    [date |-> "2024-01-02 08:00", company |-> "c", role |-> "r"] }

\* the history file: absent, not JSON, not UTF-8 text, or a JSON array of entries
HistFiles ==
    {[kind |-> "missing"], [kind |-> "malformed"], [kind |-> "undecodable"]}
    \cup {[kind |-> "json", data |-> l] : l \in SeqsUpTo(HistEntries, MaxHist)}

\* json.load with the JSONDecodeError handler
LoadHistory(file) == IF file.kind = "json" THEN file.data ELSE <<>>

\* open(file_path, "r", encoding="utf-8") and json.load: bytes that are not
\* UTF-8 (a file cut inside a multi-byte character) raise UnicodeDecodeError,
\* which is not a JSONDecodeError
LoadRaises(file) == file.kind = "undecodable"

\* json.dump
DumpHistory(entries) == [kind |-> "json", data |-> entries]

HistIdle ==
    /\ hist_file = [kind |-> "missing"]
    /\ past_jobs = <<>>
    /\ active_jobs = <<>>
    /\ prune_log = <<>>
    /\ hist_pc = "idle"
    /\ save_log = <<>>

\* variant: an entry is kept when its detail fetch reports no error
check_job_noerror(job) ==
    LET refnr == Get(job, "refnr", <<>>)
    IN  IF refnr = <<>> THEN [detail |-> NotCalled, res |-> [kind |-> "None"]]
        ELSE LET d == fetch_job_details(refnr, site[refnr])
             IN  [detail |-> [called |-> TRUE, refnr |-> refnr, ret |-> d],
                  res |-> IF d.raised THEN [kind |-> "raised"]
                          ELSE IF d.out.detail_error = ""
                          THEN [kind |-> "value", value |-> job]
                          ELSE [kind |-> "None"]]

\* check_job: the entry when its detail page has a description, else None
check_job(job) ==
    LET refnr == Get(job, "refnr", <<>>)
    IN  IF refnr = <<>> THEN [detail |-> NotCalled, res |-> [kind |-> "None"]]
        ELSE LET d == fetch_job_details(refnr, site[refnr])
             IN  [detail |-> [called |-> TRUE, refnr |-> refnr, ret |-> d],
                  res |-> IF d.raised THEN [kind |-> "raised"]
                          ELSE IF d.out.description_full # ""
                          THEN [kind |-> "value", value |-> job]
                          ELSE [kind |-> "None"]]

\* cleanup_inactive_jobs up to executor.map
PruneLoad ==
    /\ IF hist_file.kind = "missing"
       THEN /\ prune_log' = Append(prune_log,
                               [loaded |-> <<>>, ret |-> <<>>, file |-> hist_file])
            /\ past_jobs' = <<>>
            /\ active_jobs' = <<>>
            /\ hist_pc' = "returned"
            /\ UNCHANGED poolVars
       ELSE IF LoadRaises(hist_file)
       THEN /\ past_jobs' = <<>>
            /\ active_jobs' = <<>>
            /\ hist_pc' = "raised"
            /\ UNCHANGED <<prune_log, poolVars>>
       ELSE /\ past_jobs' = LoadHistory(hist_file)
            /\ active_jobs' = <<>>
            /\ pool' = Submit(LoadHistory(hist_file))
            /\ pool_next' = 1
            /\ hist_pc' = "pool"
            /\ UNCHANGED prune_log
    /\ UNCHANGED <<hist_file, save_log, aggVars, site>>

\* cleanup_inactive_jobs called on its own
PruneBegin ==
    /\ run_pc = "none"
    /\ hist_pc \in {"idle", "returned"}
    /\ Len(prune_log) < MaxPruneCalls
    /\ PruneLoad
    /\ UNCHANGED runVars

\* a worker runs check_job to its end
PruneWorkerFinish ==
    /\ hist_pc \in {"pool", "raising"}
    /\ \E i \in Running :
         LET r == check_job(pool[i].item)
         IN  pool' = [pool EXCEPT ![i].st = "done", ![i].detail = r.detail, ![i].res = r.res]
    /\ UNCHANGED <<pool_next, aggVars, site, histVars, runVars>>

\* variant: inactive entries are removed from the list being iterated, so the
\* entry after a removed one is passed over and stays
PruneConsume_skipAfterRemoval ==
    /\ hist_pc = "pool"
    /\ pool_next <= Len(pool)
    /\ pool[pool_next].st = "done"
    /\ LET res == pool[pool_next].res
       IN  IF res.kind = "raised"
           THEN /\ pool' = CancelQueued(pool)
                /\ \/ Queued # {} /\ hist_pc' = "pool"
                   \/ Cardinality(Queued) <= 1 /\ hist_pc' = "raising"
                /\ UNCHANGED <<pool_next, active_jobs>>
           ELSE IF res.kind = "value"
           THEN /\ active_jobs' = Append(active_jobs, res.value)
                /\ pool_next' = pool_next + 1
                /\ UNCHANGED <<pool, hist_pc>>
           ELSE /\ active_jobs' = IF pool_next < Len(pool)
                                  THEN Append(active_jobs, pool[pool_next + 1].item)
                                  ELSE active_jobs
                /\ pool_next' = pool_next + 2
                /\ UNCHANGED <<pool, hist_pc>>
    /\ UNCHANGED <<hist_file, past_jobs, prune_log, save_log, aggVars, site, runVars>>

\* for result in results: the next result in submission order. A result
\* that is an exception makes the iterator cancel the pending tasks, one per
\* step; with the last pending task gone the exception reaches the loop.
PruneConsume ==
    /\ hist_pc = "pool"
    /\ pool_next <= Len(pool)
    /\ pool[pool_next].st = "done"
    /\ LET res == pool[pool_next].res
       IN  IF res.kind = "raised"
           THEN /\ pool' = CancelQueued(pool)
                /\ \/ Queued # {} /\ hist_pc' = "pool"
                   \/ Cardinality(Queued) <= 1 /\ hist_pc' = "raising"
                /\ UNCHANGED <<pool_next, active_jobs>>
           ELSE /\ active_jobs' = IF res.kind = "value"
                                  THEN Append(active_jobs, res.value) ELSE active_jobs
                /\ pool_next' = pool_next + 1
                /\ UNCHANGED <<pool, hist_pc>>
    /\ UNCHANGED <<hist_file, past_jobs, prune_log, save_log, aggVars, site, runVars>>

\* variant: the file is rewritten with the entries kept so far without
\* waiting for the checks still queued or running
PruneWrite_noJoin ==
    /\ hist_pc = "pool"
    /\ hist_file' = DumpHistory(active_jobs)
    /\ prune_log' = Append(prune_log,
           [loaded |-> past_jobs, ret |-> active_jobs, file |-> DumpHistory(active_jobs)])
    /\ hist_pc' = "returned"
    /\ UNCHANGED <<past_jobs, active_jobs, save_log, poolVars, aggVars, site, runVars>>

\* the with block is left (all workers joined), the file is rewritten, return
PruneWrite ==
    /\ hist_pc = "pool"
    /\ pool_next > Len(pool)
    /\ Running = {}
    /\ hist_file' = DumpHistory(active_jobs)
    /\ prune_log' = Append(prune_log,
           [loaded |-> past_jobs, ret |-> active_jobs, file |-> DumpHistory(active_jobs)])
    /\ hist_pc' = "returned"
    /\ UNCHANGED <<past_jobs, active_jobs, save_log, poolVars, aggVars, site, runVars>>

\* the exception of a task leaves cleanup_inactive_jobs once the workers are joined
PruneRaise ==
    /\ hist_pc = "raising"
    /\ Running = {}
    /\ hist_pc' = "raised"
    /\ UNCHANGED <<hist_file, past_jobs, active_jobs, prune_log, save_log, poolVars,
                   aggVars, site, runVars>>

InitPrune ==
    /\ InitAggIdle
    /\ hist_file \in HistFiles
    /\ site \in [{RefX, RefY} -> SiteOutcomes]
    /\ past_jobs = <<>>
    /\ active_jobs = <<>>
    /\ prune_log = <<>>
    /\ hist_pc = "idle"
    /\ save_log = <<>>
    /\ PoolIdle
    /\ RunIdle

NextPrune ==
    PruneBegin \/ WorkerStart \/ PruneWorkerFinish \/ PruneConsume \/ PruneWrite \/ PruneRaise

SpecPrune == InitPrune /\ [][NextPrune]_vars

-----------------------------------------------------------------------------
(* Properties of the History Store prune and of the Detail Fetcher *)

\* the detail page of identifier r carries a non-empty description
Live(r) ==
    /\ site[r].kind = "ok"
    /\ site[r].html.tag
    /\ site[r].html.payload.json = "object"
    /\ "jobdetail" \in DOMAIN site[r].html.payload.obj
    /\ "stellenangebotsBeschreibung" \in DOMAIN site[r].html.payload.obj.jobdetail
    /\ site[r].html.payload.obj.jobdetail.stellenangebotsBeschreibung # ""

HasRefnr(e) == "refnr" \in DOMAIN e /\ e.refnr # <<>>

Survivors(entries) == SelectSeq(entries, LAMBDA e : HasRefnr(e) /\ Live(e.refnr))

\* C4: a prune of an existing history file that returns keeps exactly the
\* entries with a non-empty identifier whose detail page has a description, in
\* file order; it fetches no detail page for an entry without identifier; the
\* file then holds exactly the surviving list, which is the returned value.
C4_PruneKeepsLiveEntries ==
    (hist_pc = "returned" /\ hist_file.kind # "missing") =>
        /\ active_jobs = Survivors(past_jobs)
        /\ prune_log[Len(prune_log)].ret = Survivors(past_jobs)
        /\ hist_file = [kind |-> "json", data |-> Survivors(past_jobs)]
        /\ Len(pool) = Len(past_jobs)
        /\ \A i \in 1..Len(pool) : pool[i].detail.called <=> HasRefnr(past_jobs[i])

\* the first prune of [X, Y] with X live and Y not: the file holds [X]
C4_Witness ==
    /\ hist_pc = "returned"
    /\ Len(prune_log) = 1
    /\ Len(past_jobs) = 2
    /\ HasRefnr(past_jobs[1]) /\ past_jobs[1].refnr = RefX /\ Live(RefX)
    /\ HasRefnr(past_jobs[2]) /\ past_jobs[2].refnr = RefY /\ ~Live(RefY)
    /\ hist_file = [kind |-> "json", data |-> <<past_jobs[1]>>]

\* C5: a second prune right after a first one, with the detail endpoint
\* answering the same, returns the same list and leaves the same file.
C5_PruneIdempotent ==
    \A k \in 2..Len(prune_log) :
        /\ prune_log[k].ret = prune_log[k - 1].ret
        /\ prune_log[k].file = prune_log[k - 1].file

\* two prunes in a row, the first of which dropped one of two entries
C5_Witness ==
    /\ Len(prune_log) = 2
    /\ Len(prune_log[1].loaded) = 2
    /\ Len(prune_log[1].ret) = 1
    /\ prune_log[2].loaded = prune_log[1].ret

\* the GET outcomes in which the transport failed
TransportFailures == {"URLError", "HTTPError", "TimeoutError"}

\* C6: a detail fetch whose transport fails does not raise; it returns a
\* DetailContext with a non-empty error, HTTP status 0, an empty description
\* and nothing but the URL and the error populated.
C6_TransportFailureIsSoft ==
    \A i \in 1..Len(pool) :
        (pool[i].detail.called /\ site[pool[i].detail.refnr].kind \in TransportFailures) =>
            /\ ~pool[i].detail.ret.raised
            /\ pool[i].detail.ret.out.detail_error # ""
            /\ pool[i].detail.ret.out.detail_http_status = 0
            /\ pool[i].detail.ret.out.description_full = ""
            /\ pool[i].detail.ret.out.published_detail = <<>>
            /\ pool[i].detail.ret.out.modified_detail = ""
            /\ pool[i].detail.ret.out.vertragsdauer_detail = ""
            /\ pool[i].detail.ret.out.detail_arbeitsorte = <<>>

NoStateJson(outcome) ==
    outcome.kind = "ok" /\ (~outcome.html.tag \/ outcome.html.payload.json = "malformed")

\* C7: a detail fetch whose GET succeeds but whose page has no ng-state tag, or
\* one whose content is not JSON, does not raise and returns a DetailContext
\* with empty description, empty error and the HTTP status of the response.
C7_NoStateIsEmptyNotError ==
    \A i \in 1..Len(pool) :
        (pool[i].detail.called /\ NoStateJson(site[pool[i].detail.refnr])) =>
            /\ ~pool[i].detail.ret.raised
            /\ pool[i].detail.ret.out.description_full = ""
            /\ pool[i].detail.ret.out.detail_error = ""
            /\ pool[i].detail.ret.out.detail_http_status = site[pool[i].detail.refnr].status

\* two finished detail fetches, one of a page without the tag and one of a
\* page whose tag holds malformed JSON
C7_Witness ==
    /\ \E i \in 1..Len(pool) :
          /\ pool[i].st = "done" /\ pool[i].detail.called
          /\ site[pool[i].detail.refnr].kind = "ok"
          /\ ~site[pool[i].detail.refnr].html.tag
    /\ \E i \in 1..Len(pool) :
          /\ pool[i].st = "done" /\ pool[i].detail.called
          /\ site[pool[i].detail.refnr].kind = "ok"
          /\ site[pool[i].detail.refnr].html.tag
          /\ site[pool[i].detail.refnr].html.payload.json = "malformed"
          /\ pool[i].detail.ret.out.detail_http_status = 203

-----------------------------------------------------------------------------
(* Aggregator: fetch_all_matching_jobs *)

InitAgg ==
    /\ terms \in {EffectiveTerms(c) : c \in TermConfigs}
    /\ term_i = 1
    /\ page = 1
    /\ total_pages = 0
    /\ raw_jobs = <<>>
    /\ query_count = 0
    /\ requests = <<>>
    /\ term_total = [t \in 1..Len(terms) |-> -1]
    /\ last_fetch = [kind |-> "none"]
    /\ deduped = <<>>
    /\ out_summary = NoSummary
    /\ agg_pc = "paging"
    /\ site = NoSite
    /\ HistIdle
    /\ PoolIdle
    /\ RunIdle

\* variant: the for loop takes the same term again
NextTerm_again(limit) ==
    /\ page' = 1
    /\ total_pages' = 0
    /\ UNCHANGED <<term_i, agg_pc>>

\* leave the while loop of the current term with page limit `limit` (0 for
\* None): the for loop takes the next term and resets page and total_pages;
\* after the last term the two keep the values they had at the break
NextTerm(limit) ==
    IF term_i < Len(terms)
    THEN /\ term_i' = term_i + 1
         /\ page' = 1
         /\ total_pages' = 0
         /\ agg_pc' = "paging"
    ELSE /\ agg_pc' = "merge"
         /\ total_pages' = limit
         /\ UNCHANGED <<term_i, page>>

\* variant: after a page the loop goes on two pages further
FetchPageOk_skip ==
    /\ agg_pc = "paging"
    /\ \E payload \in Payloads :
         LET r == fetch_jobs_page(payload, terms[term_i])
             limit == IF total_pages = 0 THEN PageLimit(r.max_results) ELSE total_pages
         IN  /\ Len(raw_jobs) + Len(r.jobs) <= MaxRaw
             /\ query_count' = query_count + 1
             /\ requests' = Append(requests,
                    [term_i |-> term_i, page |-> page, ok |-> TRUE])
             /\ term_total' = IF total_pages = 0
                              THEN [term_total EXCEPT ![term_i] = r.max_results]
                              ELSE term_total
             /\ last_fetch' = [kind |-> "ok", payload |-> payload, ret |-> r]
             /\ raw_jobs' = raw_jobs \o r.jobs
             /\ IF page >= limit
                THEN NextTerm(limit)
                ELSE /\ page' = page + 2
                     /\ total_pages' = limit
                     /\ UNCHANGED <<term_i, agg_pc>>
    /\ UNCHANGED <<terms, deduped, out_summary>>
    /\ UNCHANGED <<site, histVars, poolVars, runVars>>

\* fetch_jobs_page returned
FetchPageOk ==
    /\ agg_pc = "paging"
    /\ \E payload \in Payloads :
         LET r == fetch_jobs_page(payload, terms[term_i])
             limit == IF total_pages = 0 THEN PageLimit(r.max_results) ELSE total_pages
         IN  /\ Len(raw_jobs) + Len(r.jobs) <= MaxRaw
             /\ query_count' = query_count + 1
             /\ requests' = Append(requests,
                    [term_i |-> term_i, page |-> page, ok |-> TRUE])
             /\ term_total' = IF total_pages = 0
                              THEN [term_total EXCEPT ![term_i] = r.max_results]
                              ELSE term_total
             /\ last_fetch' = [kind |-> "ok", payload |-> payload, ret |-> r]
             /\ raw_jobs' = raw_jobs \o r.jobs
             /\ IF page >= limit
                THEN NextTerm(limit)
                ELSE /\ page' = page + 1
                     /\ total_pages' = limit
                     /\ UNCHANGED <<term_i, agg_pc>>
    /\ UNCHANGED <<terms, deduped, out_summary>>
    /\ UNCHANGED <<site, histVars, poolVars, runVars>>

\* variant: a failed request ends the paging of all terms
FetchPageFail_abort ==
    /\ agg_pc = "paging"
    /\ requests' = Append(requests,
           [term_i |-> term_i, page |-> page, ok |-> FALSE])
    /\ agg_pc' = "merge"
    /\ last_fetch' = [kind |-> "raised"]
    /\ UNCHANGED <<terms, term_i, page, total_pages, raw_jobs, query_count,
                   term_total, deduped, out_summary>>
    /\ UNCHANGED <<site, histVars, poolVars, runVars>>

\* fetch_jobs_page raised (transport or JSON error): warn and break
FetchPageFail ==
    /\ agg_pc = "paging"
    /\ requests' = Append(requests,
           [term_i |-> term_i, page |-> page, ok |-> FALSE])
    /\ NextTerm(total_pages)
    /\ last_fetch' = [kind |-> "raised"]
    /\ UNCHANGED <<terms, raw_jobs, query_count, term_total, deduped, out_summary>>
    /\ UNCHANGED <<site, histVars, poolVars, runVars>>

\* the merge loop, the projection to summaries and the return
MergeAndSummarize ==
    /\ agg_pc = "merge"
    /\ LET dd == Dedup(raw_jobs)
           selected_jobs == [i \in 1..Len(dd) |-> dd[i].job]
       IN  /\ deduped' = dd
           /\ out_summary' =
                [query_terms |-> terms,
                 query_count |-> query_count,
                 raw_result_count |-> Len(raw_jobs),
                 deduped_count |-> Len(dd),
                 candidate_count |-> Len(selected_jobs),
                 candidates |-> [i \in 1..Len(selected_jobs) |-> Summarize(selected_jobs[i])]]
    /\ agg_pc' = "done"
    /\ UNCHANGED <<terms, term_i, page, total_pages, raw_jobs, query_count,
                   requests, term_total, last_fetch>>
    /\ UNCHANGED <<site, histVars, poolVars, runVars>>

NextAgg == FetchPageOk \/ FetchPageFail \/ MergeAndSummarize

SpecAgg == InitAgg /\ [][NextAgg]_vars

\* fetch_all_matching_jobs is a sequential loop and every request returns or
\* raises (the GET has a timeout): while the Aggregator is paging, its next
\* request is issued and answered
SpecAggLive == SpecAgg /\ WF_vars(FetchPageOk \/ FetchPageFail)

\* The merge step on its own: the paging has returned an arbitrary sequence of
\* listings (here as the single page of the single term "").
InitMerge ==
    /\ terms = <<"">>
    /\ term_i = 1
    /\ page = 1
    /\ total_pages = 1
    /\ \E q \in SeqsUpTo(Catalogue, MaxMerge) :
         /\ raw_jobs = [i \in 1..Len(q) |-> Tag(q[i], "")]
         /\ last_fetch = FetchOf(OnePage(q), "")
    /\ query_count = 1
    /\ requests = <<[term_i |-> 1, page |-> 1, ok |-> TRUE]>>
    /\ term_total = <<Len(raw_jobs)>>
    /\ deduped = <<>>
    /\ out_summary = NoSummary
    /\ agg_pc = "merge"
    /\ site = NoSite
    /\ HistIdle
    /\ PoolIdle
    /\ RunIdle

NextMerge == MergeAndSummarize

SpecMerge == InitMerge /\ [][NextMerge]_vars

-----------------------------------------------------------------------------
(* Pipeline: generate_report, read_profile_context, the two LLM stages,
   fetch_deep_dive_details, build_and_save_reports, save_suggested_jobs *)

RefZ == <<"Z">>

LLM_ATTEMPTS == 3

\* the listings the paging has accumulated when a pipeline run is followed
RunRaws == {
    <<>>,
    <<[refnr |-> RefA, aktuelleVeroeffentlichungsdatum |-> Date0101]>>,
    <<[refnr |-> RefA, aktuelleVeroeffentlichungsdatum |-> Date0101],
      [refnr |-> RefB, aktuelleVeroeffentlichungsdatum |-> <<>>]>>,
    <<[refnr |-> RefApad, aktuelleVeroeffentlichungsdatum |-> Date15],
      [refnr |-> RefB, aktuelleVeroeffentlichungsdatum |-> <<>>]>>,
    <<[refnr |-> RefA, aktuelleVeroeffentlichungsdatum |-> Date0101,
       arbeitsort |-> [ort |-> Text("Berlin"), region |-> "BE"]],
      [refnr |-> RefB, aktuelleVeroeffentlichungsdatum |-> <<>>,
       arbeitsort |-> [ort |-> [ort |-> Text("Potsdam")]]]>>,
    <<[refnr |-> RefA, aktuelleVeroeffentlichungsdatum |-> Date0101,
       arbeitsort |-> [ort |-> [region |-> "BE"]]]>>,
    <<[refnr |-> RefA, aktuelleVeroeffentlichungsdatum |-> Date0101],
      [refnr |-> RefB, aktuelleVeroeffentlichungsdatum |-> <<>>],
      [refnr |-> RefX, aktuelleVeroeffentlichungsdatum |-> <<>>]>> }

RunHistFiles == {
    [kind |-> "missing"],
    [kind |-> "json", data |->
        <<[date |-> "2024-01-02 08:00", company |-> "c", role |-> "r", refnr |-> RefX]>>],
    [kind |-> "json", data |->
        <<[date |-> "2024-01-02 08:00", company |-> "e", role |-> "t", refnr |-> RefA]>>] }

LiveOutcome == CHOOSE o \in SiteOutcomes :
    o.kind = "ok" /\ o.html.tag /\ o.html.payload.json = "object"
    /\ "jobdetail" \in DOMAIN o.html.payload.obj
    /\ o.html.payload.obj.jobdetail.stellenangebotsBeschreibung # ""

NoTagOutcome == CHOOSE o \in SiteOutcomes : o.kind = "ok" /\ ~o.html.tag

\* the detail endpoint during a pipeline run
RunSites ==
    {s \in [{RefA, RefApad, RefB, RefX} -> SiteOutcomes] :
        /\ s[RefA] = LiveOutcome \/ s[RefA].kind \in {"URLError", "TimeoutError"}
        /\ s[RefApad] = LiveOutcome
        /\ s[RefB] \in {LiveOutcome, NoTagOutcome}
        /\ s[RefX] = LiveOutcome \/ s[RefX] = NoTagOutcome \/ s[RefX].kind = "TimeoutError"}

\* what the Shortlist Stage may answer
ShortlistAnswers ==
    {<<>>, <<RefA>>, <<RefB, RefA>>, <<RefA, RefA>>, <<RefZ>>, <<RefApad, RefB>>,
     <<RefX, RefB, RefA>>}

JobMatch(r) ==
    [title |-> "t", employer |-> "e", location |-> "l", refnr |-> r,
     reason |-> "why", detail_url |-> "u"]

\* what the Selection Stage may answer
SelectionAnswers == {<<>>, <<JobMatch(RefA)>>, <<JobMatch(RefB), JobMatch(RefA)>>}

RunTimestamp == "2024-01-03 09:00"

InitRun ==
    /\ terms = <<"ki">>
    /\ term_i = 1
    /\ page = 1
    /\ total_pages = 1
    /\ \E q \in RunRaws :
         /\ raw_jobs = [i \in 1..Len(q) |-> Tag(q[i], "ki")]
         /\ last_fetch = FetchOf(OnePage(q), "ki")
    /\ query_count = 1
    /\ requests = <<[term_i |-> 1, page |-> 1, ok |-> TRUE]>>
    /\ term_total = <<Len(raw_jobs)>>
    /\ deduped = <<>>
    /\ out_summary = NoSummary
    /\ agg_pc = "merge"
    /\ site \in RunSites
    /\ hist_file \in RunHistFiles
    /\ past_jobs = <<>>
    /\ active_jobs = <<>>
    /\ prune_log = <<>>
    /\ hist_pc = "idle"
    /\ save_log = <<>>
    /\ PoolIdle
    /\ run_pc = "aggregate"
    /\ run_end = ""
    /\ exit_code = -1
    /\ past_suggestions = [kind |-> "unset"]
    /\ stage1_log = <<>>
    /\ stage2_log = <<>>
    /\ shortlist = <<>>
    /\ deep_dive_candidates = <<>>
    /\ final_jobs = <<>>
    /\ reports = <<>>
    /\ trace = <<"aggregator">>

\* read_profile_context calls cleanup_inactive_jobs once the Aggregator has returned
ReadProfileContext ==
    /\ run_pc = "aggregate"
    /\ trace' = Append(trace, "prune")
    /\ agg_pc = "done"
    /\ hist_pc = "idle"
    /\ PruneLoad
    /\ run_pc' = "pruning"
    /\ UNCHANGED <<run_end, exit_code, past_suggestions, stage1_log, stage2_log,
                   shortlist, deep_dive_candidates, final_jobs, reports>>

\* variant: the run goes on while cleanup_inactive_jobs is still checking
ProfileReturn_async ==
    /\ run_pc = "pruning"
    /\ UNCHANGED trace
    /\ hist_pc \in {"pool", "returned"}
    /\ past_suggestions' = [kind |-> "None"]
    /\ run_pc' = "shortlist"
    /\ UNCHANGED <<run_end, exit_code, stage1_log, stage2_log, shortlist,
                   deep_dive_candidates, final_jobs, reports>>
    /\ UNCHANGED <<aggVars, site, histVars, poolVars>>

\* read_profile_context returns: "None" or the streamlined history
ProfileReturn ==
    /\ run_pc = "pruning"
    /\ UNCHANGED trace
    /\ hist_pc = "returned"
    /\ LET ret == prune_log[Len(prune_log)].ret
       IN  past_suggestions' =
             IF ret = <<>> THEN [kind |-> "None"]
             ELSE [kind |-> "json",
                   data |-> [i \in 1..Len(ret) |->
                       [company |-> Get(ret[i], "company", "null"),
                        role |-> Get(ret[i], "role", "null"),
                        refnr |-> Get(ret[i], "refnr", <<>>)]]]
    /\ run_pc' = "shortlist"
    /\ UNCHANGED <<run_end, exit_code, stage1_log, stage2_log, shortlist,
                   deep_dive_candidates, final_jobs, reports>>
    /\ UNCHANGED <<aggVars, site, histVars, poolVars>>

\* an exception of cleanup_inactive_jobs leaves generate_report uncaught
ProfileCrash ==
    /\ run_pc = "pruning"
    /\ UNCHANGED trace
    /\ hist_pc = "raised"
    /\ run_pc' = "crashed"
    /\ run_end' = "exception in cleanup_inactive_jobs"
    /\ exit_code' = 1
    /\ UNCHANGED <<past_suggestions, stage1_log, stage2_log, shortlist,
                   deep_dive_candidates, final_jobs, reports>>
    /\ UNCHANGED <<aggVars, site, histVars, poolVars>>

\* variant: the stage gives up on its second failed attempt
ExitsOnFailure_second(attempt) == attempt = 1

\* if attempt == 2: sys.exit(1)
ExitsOnFailure(attempt) == attempt = 2

\* an attempt of shortlist_relevant_jobs returns the parsed answer
ShortlistAnswer ==
    /\ run_pc = "shortlist"
    /\ trace' = IF stage1_log = <<>> THEN Append(trace, "shortlist") ELSE trace
    /\ Len(stage1_log) < LLM_ATTEMPTS
    /\ \E answer \in ShortlistAnswers :
         /\ stage1_log' = Append(stage1_log, [ok |-> TRUE, answer |-> answer])
         /\ shortlist' = answer
         /\ IF answer = <<>>
            THEN run_pc' = "ended" /\ run_end' = "no shortlist" /\ exit_code' = 0
            ELSE run_pc' = "deepdive" /\ UNCHANGED <<run_end, exit_code>>
    /\ UNCHANGED <<past_suggestions, stage2_log, deep_dive_candidates, final_jobs, reports>>
    /\ UNCHANGED <<aggVars, site, histVars, poolVars>>

\* an attempt of shortlist_relevant_jobs raises (request or parsing)
ShortlistError ==
    /\ run_pc = "shortlist"
    /\ trace' = IF stage1_log = <<>> THEN Append(trace, "shortlist") ELSE trace
    /\ Len(stage1_log) < LLM_ATTEMPTS
    /\ stage1_log' = Append(stage1_log, [ok |-> FALSE])
    /\ IF ExitsOnFailure(Len(stage1_log))
       THEN run_pc' = "exited" /\ run_end' = "stage 1 failed" /\ exit_code' = 1
       ELSE IF Len(stage1_log) + 1 = LLM_ATTEMPTS
       THEN run_pc' = "ended" /\ run_end' = "no shortlist" /\ exit_code' = 0
       ELSE UNCHANGED <<run_pc, run_end, exit_code>>
    /\ UNCHANGED <<past_suggestions, stage2_log, shortlist, deep_dive_candidates,
                   final_jobs, reports>>
    /\ UNCHANGED <<aggVars, site, histVars, poolVars>>

\* _fetch_single_job_details: the summary merged with its detail context
_fetch_single_job_details(job) ==
    LET refnr == Get(job, "refnr", <<>>)
        arbeitsort == Get(job, "arbeitsort", Text(""))
        ort == IF isinstance_dict(arbeitsort) THEN Get(arbeitsort, "ort", Text(""))
               ELSE arbeitsort
        d == fetch_job_details(refnr, site[refnr])
    IN  [detail |-> [called |-> TRUE, refnr |-> refnr, ret |-> d],
         res |-> IF d.raised THEN [kind |-> "raised"]
                 ELSE [kind |-> "value",
                       value |-> [refnr |-> refnr,
                                  titel |-> Get(job, "titel", "None"),
                                  arbeitgeber |-> Get(job, "arbeitgeber", "None"),
                                  arbeitsort |-> ort,
                                  description_full |-> d.out.description_full,
                                  detail_url |-> d.out.detail_url,
                                  vertragsdauer_detail |-> d.out.vertragsdauer_detail]]]

InShortlist(job) == \E k \in 1..Len(shortlist) : shortlist[k] = Get(job, "refnr", <<>>)

\* variant: one fetch per shortlist entry instead of one per summary
JobsToFetch_perShortlistEntry ==
    LET RECURSIVE PerEntry(_)
        PerEntry(k) ==
            IF k > Len(shortlist) THEN <<>>
            ELSE LET Named(job) == Get(job, "refnr", <<>>) = shortlist[k]
                 IN  SelectSeq(out_summary.candidates, Named) \o PerEntry(k + 1)
    IN  PerEntry(1)

\* jobs_to_fetch: the summaries whose refnr is in the shortlist
JobsToFetch == SelectSeq(out_summary.candidates, InShortlist)

\* fetch_deep_dive_details up to executor.map
DeepDiveBegin ==
    /\ run_pc = "deepdive"
    /\ trace' = Append(trace, "deepdive")
    /\ pool' = Submit(JobsToFetch)
    /\ pool_next' = 1
    /\ deep_dive_candidates' = <<>>
    /\ run_pc' = "diving"
    /\ UNCHANGED <<run_end, exit_code, past_suggestions, stage1_log, stage2_log,
                   shortlist, final_jobs, reports>>
    /\ UNCHANGED <<aggVars, site, histVars>>

\* a worker runs _fetch_single_job_details to its end
DeepDiveWorkerFinish ==
    /\ run_pc \in {"diving", "dive_raising"}
    /\ \E i \in Running :
         LET r == _fetch_single_job_details(pool[i].item)
         IN  pool' = [pool EXCEPT ![i].st = "done", ![i].detail = r.detail, ![i].res = r.res]
    /\ UNCHANGED <<pool_next, aggVars, site, histVars, runVars>>

\* variant: results are taken as the workers complete them
DeepDiveConsume_asCompleted ==
    /\ run_pc = "diving"
    /\ UNCHANGED trace
    /\ \E i \in 1..Len(pool) :
         /\ pool[i].st = "done"
         /\ pool[i].res.kind = "value"
         /\ deep_dive_candidates' = Append(deep_dive_candidates, pool[i].res.value)
         /\ pool' = [pool EXCEPT ![i].st = "taken"]
    /\ UNCHANGED <<pool_next, run_pc>>
    /\ UNCHANGED <<run_end, exit_code, past_suggestions, stage1_log, stage2_log,
                   shortlist, final_jobs, reports>>
    /\ UNCHANGED <<aggVars, site, histVars>>

\* for result in results: the next result in submission order. A result
\* that is an exception makes the iterator cancel the pending tasks, one per
\* step; with the last pending task gone the exception reaches the loop.
DeepDiveConsume ==
    /\ run_pc = "diving"
    /\ UNCHANGED trace
    /\ pool_next <= Len(pool)
    /\ pool[pool_next].st = "done"
    /\ LET res == pool[pool_next].res
       IN  IF res.kind = "raised"
           THEN /\ pool' = CancelQueued(pool)
                /\ \/ Queued # {} /\ run_pc' = "diving"
                   \/ Cardinality(Queued) <= 1 /\ run_pc' = "dive_raising"
                /\ UNCHANGED <<pool_next, deep_dive_candidates>>
           ELSE /\ deep_dive_candidates' = Append(deep_dive_candidates, res.value)
                /\ pool_next' = pool_next + 1
                /\ UNCHANGED <<pool, run_pc>>
    /\ UNCHANGED <<run_end, exit_code, past_suggestions, stage1_log, stage2_log,
                   shortlist, final_jobs, reports>>
    /\ UNCHANGED <<aggVars, site, histVars>>

\* variant: the run goes on to the Selection Stage with an empty candidate list
DeepDiveReturn_noEmptyCheck ==
    /\ run_pc = "diving"
    /\ UNCHANGED trace
    /\ pool_next > Len(pool)
    /\ Running = {}
    /\ run_pc' = "select"
    /\ UNCHANGED <<run_end, exit_code>>
    /\ UNCHANGED <<past_suggestions, stage1_log, stage2_log, shortlist,
                   deep_dive_candidates, final_jobs, reports>>
    /\ UNCHANGED <<aggVars, site, histVars, poolVars>>

\* fetch_deep_dive_details returns once the with block is left
DeepDiveReturn ==
    /\ run_pc = "diving"
    /\ UNCHANGED trace
    /\ pool_next > Len(pool)
    /\ Running = {}
    /\ IF deep_dive_candidates = <<>>
       THEN run_pc' = "ended" /\ run_end' = "no details" /\ exit_code' = 0
       ELSE run_pc' = "select" /\ UNCHANGED <<run_end, exit_code>>
    /\ UNCHANGED <<past_suggestions, stage1_log, stage2_log, shortlist,
                   deep_dive_candidates, final_jobs, reports>>
    /\ UNCHANGED <<aggVars, site, histVars, poolVars>>

\* the exception of a task leaves fetch_deep_dive_details and generate_report
DeepDiveRaise ==
    /\ run_pc = "dive_raising"
    /\ UNCHANGED trace
    /\ Running = {}
    /\ run_pc' = "crashed"
    /\ run_end' = "exception in fetch_deep_dive_details"
    /\ exit_code' = 1
    /\ UNCHANGED <<past_suggestions, stage1_log, stage2_log, shortlist,
                   deep_dive_candidates, final_jobs, reports>>
    /\ UNCHANGED <<aggVars, site, histVars, poolVars>>

\* variant: an empty final selection is handed to build_and_save_reports
SelectAnswer_reportsEmpty ==
    /\ run_pc = "select"
    /\ trace' = IF stage2_log = <<>> THEN Append(trace, "selection") ELSE trace
    /\ Len(stage2_log) < LLM_ATTEMPTS
    /\ \E answer \in SelectionAnswers :
         /\ stage2_log' = Append(stage2_log, [ok |-> TRUE, answer |-> answer])
         /\ final_jobs' = answer
         /\ run_pc' = "report" /\ UNCHANGED <<run_end, exit_code>>
    /\ UNCHANGED <<past_suggestions, stage1_log, shortlist, deep_dive_candidates, reports>>
    /\ UNCHANGED <<aggVars, site, histVars, poolVars>>

\* an attempt of select_best_matches returns the parsed answer
SelectAnswer ==
    /\ run_pc = "select"
    /\ trace' = IF stage2_log = <<>> THEN Append(trace, "selection") ELSE trace
    /\ Len(stage2_log) < LLM_ATTEMPTS
    /\ \E answer \in SelectionAnswers :
         /\ stage2_log' = Append(stage2_log, [ok |-> TRUE, answer |-> answer])
         /\ final_jobs' = answer
         /\ IF answer = <<>>
            THEN run_pc' = "ended" /\ run_end' = "no selection" /\ exit_code' = 0
            ELSE run_pc' = "report" /\ UNCHANGED <<run_end, exit_code>>
    /\ UNCHANGED <<past_suggestions, stage1_log, shortlist, deep_dive_candidates, reports>>
    /\ UNCHANGED <<aggVars, site, histVars, poolVars>>

\* an attempt of select_best_matches raises (request or parsing)
SelectError ==
    /\ run_pc = "select"
    /\ trace' = IF stage2_log = <<>> THEN Append(trace, "selection") ELSE trace
    /\ Len(stage2_log) < LLM_ATTEMPTS
    /\ stage2_log' = Append(stage2_log, [ok |-> FALSE])
    /\ IF ExitsOnFailure(Len(stage2_log))
       THEN run_pc' = "exited" /\ run_end' = "stage 2 failed" /\ exit_code' = 1
       ELSE IF Len(stage2_log) + 1 = LLM_ATTEMPTS
       THEN run_pc' = "ended" /\ run_end' = "no selection" /\ exit_code' = 0
       ELSE UNCHANGED <<run_pc, run_end, exit_code>>
    /\ UNCHANGED <<past_suggestions, stage1_log, shortlist, deep_dive_candidates,
                   final_jobs, reports>>
    /\ UNCHANGED <<aggVars, site, histVars, poolVars>>

RefNA == <<"N", "/", "A">>

\* variant: an entry already in the file is dropped when an incoming match
\* has its identifier
save_suggested_jobs_dedup(matches, file) ==
    IF LoadRaises(file) THEN [raised |-> TRUE]
    ELSE [raised |-> FALSE,
          file |-> DumpHistory(
              SelectSeq(LoadHistory(file),
                        LAMBDA e : ~\E i \in 1..Len(matches) :
                            Get(matches[i], "refnr", RefNA) = Get(e, "refnr", <<>>))
              \o [i \in 1..Len(matches) |->
                    [date |-> RunTimestamp,
                     company |-> Get(matches[i], "company", "N/A"),
                     role |-> Get(matches[i], "role", "N/A"),
                     refnr |-> Get(matches[i], "refnr", RefNA)]])]

\* save_suggested_jobs: the file after the matches are appended, or the
\* exception of the load
save_suggested_jobs(matches, file) ==
    IF LoadRaises(file) THEN [raised |-> TRUE]
    ELSE [raised |-> FALSE,
          file |-> DumpHistory(LoadHistory(file) \o
              [i \in 1..Len(matches) |->
                  [date |-> RunTimestamp,
                   company |-> Get(matches[i], "company", "N/A"),
                   role |-> Get(matches[i], "role", "N/A"),
                   refnr |-> Get(matches[i], "refnr", RefNA)]])]

\* one call of save_suggested_jobs: the file and the log of calls after it
SaveStep(matches) ==
    LET r == save_suggested_jobs(matches, hist_file)
    IN  /\ hist_file' = IF r.raised THEN hist_file ELSE r.file
        /\ save_log' = Append(save_log,
               [matches |-> matches, before |-> hist_file, raised |-> r.raised,
                after |-> IF r.raised THEN hist_file ELSE r.file])

\* how far build_and_save_reports gets with the two report files: rendering
\* the HTML (generate_html) or creating the directory may raise before any
\* file is written, opening or writing the Markdown file may raise, and so may
\* opening or writing the HTML file once the Markdown file is there
ReportOutcomes == {"written", "render raised", "md raised", "html raised"}

\* the report files on disk after an outcome
ReportsAfter(outcome) ==
    IF outcome = "written"
    THEN <<[format |-> "md", jobs |-> final_jobs], [format |-> "html", jobs |-> final_jobs]>>
    ELSE IF outcome = "html raised"
    THEN <<[format |-> "md", jobs |-> final_jobs]>>
    ELSE <<>>

\* build_and_save_reports up to the two report files being written; an
\* exception here is caught nowhere and ends the run before
\* save_suggested_jobs is reached
WriteReports ==
    /\ run_pc = "report"
    /\ trace' = Append(trace, "report")
    /\ \E outcome \in ReportOutcomes :
         /\ reports' = reports \o ReportsAfter(outcome)
         /\ IF outcome = "written"
            THEN run_pc' = "logging" /\ UNCHANGED <<run_end, exit_code>>
            ELSE run_pc' = "crashed" /\ run_end' = "exception in build_and_save_reports"
                 /\ exit_code' = 1
    /\ UNCHANGED <<past_suggestions, stage1_log, stage2_log,
                   shortlist, deep_dive_candidates, final_jobs>>
    /\ UNCHANGED <<aggVars, site, histVars, poolVars>>

\* matches_to_log: company, role and refnr of every selected match
MatchesToLog ==
    [i \in 1..Len(final_jobs) |->
        [company |-> final_jobs[i].employer,
         role |-> final_jobs[i].title,
         refnr |-> Get(final_jobs[i], "refnr", <<>>)]]

\* variant: the matches are logged to the history file before the report
\* files are written
LogSuggestions_beforeReports ==
    /\ run_pc = "report"
    /\ trace' = Append(trace, "append")
    /\ SaveStep(MatchesToLog)
    /\ IF save_suggested_jobs(MatchesToLog, hist_file).raised
       THEN run_pc' = "crashed" /\ run_end' = "exception in save_suggested_jobs"
            /\ exit_code' = 1
       ELSE run_pc' = "done" /\ run_end' = "reported" /\ exit_code' = 0
    /\ UNCHANGED <<past_suggestions, stage1_log, stage2_log, shortlist,
                   deep_dive_candidates, final_jobs, reports>>
    /\ UNCHANGED <<past_jobs, active_jobs, prune_log, hist_pc, aggVars, site, poolVars>>

\* build_and_save_reports: the matches are logged to the history file, and
\* generate_report returns
LogSuggestions ==
    /\ run_pc = "logging"
    /\ trace' = Append(trace, "append")
    /\ SaveStep(MatchesToLog)
    /\ IF save_suggested_jobs(MatchesToLog, hist_file).raised
       THEN run_pc' = "crashed" /\ run_end' = "exception in save_suggested_jobs"
            /\ exit_code' = 1
       ELSE run_pc' = "done" /\ run_end' = "reported" /\ exit_code' = 0
    /\ UNCHANGED <<past_suggestions, stage1_log, stage2_log, shortlist,
                   deep_dive_candidates, final_jobs, reports>>
    /\ UNCHANGED <<past_jobs, active_jobs, prune_log, hist_pc, aggVars, site, poolVars>>

NextRun ==
    \/ MergeAndSummarize
    \/ ReadProfileContext
    \/ WorkerStart
    \/ PruneWorkerFinish
    \/ PruneConsume
    \/ PruneWrite
    \/ PruneRaise
    \/ ProfileReturn
    \/ ProfileCrash
    \/ ShortlistAnswer
    \/ ShortlistError
    \/ DeepDiveBegin
    \/ DeepDiveWorkerFinish
    \/ DeepDiveConsume
    \/ DeepDiveReturn
    \/ DeepDiveRaise
    \/ SelectAnswer
    \/ SelectError
    \/ WriteReports
    \/ LogSuggestions

SpecRun == InitRun /\ [][NextRun]_vars

-----------------------------------------------------------------------------
(* Fan-out: a prune and a deep dive over more tasks than the pool has workers *)

JobRef(i) == <<"J", DigitChar(i \div 10), DigitChar(i % 10)>>

\* the detail endpoint: every third listing is gone, the others are live
FanSite(n) ==
    [r \in {JobRef(i) : i \in 1..n} |->
        IF \E i \in 1..n : r = JobRef(i) /\ i % 3 = 0 THEN NoTagOutcome ELSE LiveOutcome]

FanHistory(n) ==
    [kind |-> "json", data |->
        [i \in 1..n |-> [date |-> "2024-01-02 08:00", company |-> "c", role |-> "r",
                         refnr |-> JobRef(i)]]]

FanListings(n) ==
    [i \in 1..n |-> Tag([refnr |-> JobRef(i),
                         aktuelleVeroeffentlichungsdatum |-> Date0101], "ki")]

\* cleanup_inactive_jobs is about to be called on a history of n entries
InitFanPrune(n) ==
    /\ InitAggIdle
    /\ site = FanSite(n)
    /\ hist_file = FanHistory(n)
    /\ past_jobs = <<>>
    /\ active_jobs = <<>>
    /\ prune_log = <<>>
    /\ hist_pc = "idle"
    /\ save_log = <<>>
    /\ PoolIdle
    /\ RunIdle

\* generate_report is about to call fetch_deep_dive_details with a shortlist
\* of all n candidates of the summary
InitFanDive(n) ==
    /\ terms = <<"ki">>
    /\ term_i = 1
    /\ page = 1
    /\ total_pages = 1
    /\ raw_jobs = FanListings(n)
    /\ query_count = 1
    /\ requests = <<[term_i |-> 1, page |-> 1, ok |-> TRUE]>>
    /\ term_total = <<n>>
    /\ last_fetch = FetchOf(OnePage([i \in 1..n |->
                        [refnr |-> JobRef(i),
                         aktuelleVeroeffentlichungsdatum |-> Date0101]]), "ki")
    /\ deduped = Dedup(FanListings(n))
    /\ out_summary =
         [query_terms |-> <<"ki">>,
          query_count |-> 1,
          raw_result_count |-> n,
          deduped_count |-> n,
          candidate_count |-> n,
          candidates |-> [i \in 1..n |-> Summarize(FanListings(n)[i])]]
    /\ agg_pc = "done"
    /\ site = FanSite(n)
    /\ hist_file = [kind |-> "missing"]
    /\ past_jobs = <<>>
    /\ active_jobs = <<>>
    /\ prune_log = <<[loaded |-> <<>>, ret |-> <<>>, file |-> [kind |-> "missing"]]>>
    /\ hist_pc = "returned"
    /\ save_log = <<>>
    /\ PoolIdle
    /\ run_pc = "deepdive"
    /\ run_end = ""
    /\ exit_code = -1
    /\ past_suggestions = [kind |-> "None"]
    /\ shortlist = [i \in 1..n |-> JobRef(i)]
    /\ stage1_log = <<[ok |-> TRUE, answer |-> [i \in 1..n |-> JobRef(i)]]>>
    /\ stage2_log = <<>>
    /\ deep_dive_candidates = <<>>
    /\ final_jobs = <<>>
    /\ reports = <<>>
    /\ trace = <<"aggregator", "prune", "shortlist">>

\* the tasks of a large fan-out that no worker has marked running yet
FanPending == 3

\* the pool of a fan-out over items at the moment the workers have marked the
\* first k tasks running and none has finished
FanPool(items, k) ==
    [i \in 1..Len(items) |->
        IF i <= k THEN [Submit(items)[i] EXCEPT !.st = "running"] ELSE Submit(items)[i]]

\* cleanup_inactive_jobs on a history of n entries, waiting for the first result
InitFanPruneStarted(n) ==
    /\ InitAggIdle
    /\ site = FanSite(n)
    /\ hist_file = FanHistory(n)
    /\ past_jobs = FanHistory(n).data
    /\ active_jobs = <<>>
    /\ prune_log = <<>>
    /\ hist_pc = "pool"
    /\ save_log = <<>>
    /\ pool = FanPool(FanHistory(n).data, n - FanPending)
    /\ pool_next = 1
    /\ RunIdle

\* fetch_deep_dive_details over a shortlist of all n candidates, waiting for
\* the first result
InitFanDiveStarted(n) ==
    /\ terms = <<"ki">>
    /\ term_i = 1
    /\ page = 1
    /\ total_pages = 1
    /\ raw_jobs = FanListings(n)
    /\ query_count = 1
    /\ requests = <<[term_i |-> 1, page |-> 1, ok |-> TRUE]>>
    /\ term_total = <<n>>
    /\ last_fetch = FetchOf(OnePage([i \in 1..n |->
                        [refnr |-> JobRef(i),
                         aktuelleVeroeffentlichungsdatum |-> Date0101]]), "ki")
    /\ deduped = Dedup(FanListings(n))
    /\ out_summary =
         [query_terms |-> <<"ki">>,
          query_count |-> 1,
          raw_result_count |-> n,
          deduped_count |-> n,
          candidate_count |-> n,
          candidates |-> [i \in 1..n |-> Summarize(FanListings(n)[i])]]
    /\ agg_pc = "done"
    /\ site = FanSite(n)
    /\ hist_file = [kind |-> "missing"]
    /\ past_jobs = <<>>
    /\ active_jobs = <<>>
    /\ prune_log = <<[loaded |-> <<>>, ret |-> <<>>, file |-> [kind |-> "missing"]]>>
    /\ hist_pc = "returned"
    /\ save_log = <<>>
    /\ pool = FanPool([i \in 1..n |-> Summarize(FanListings(n)[i])], n - FanPending)
    /\ pool_next = 1
    /\ run_pc = "diving"
    /\ run_end = ""
    /\ exit_code = -1
    /\ past_suggestions = [kind |-> "None"]
    /\ shortlist = [i \in 1..n |-> JobRef(i)]
    /\ stage1_log = <<[ok |-> TRUE, answer |-> [i \in 1..n |-> JobRef(i)]]>>
    /\ stage2_log = <<>>
    /\ deep_dive_candidates = <<>>
    /\ final_jobs = <<>>
    /\ reports = <<>>
    /\ trace = <<"aggregator", "prune", "shortlist", "deepdive">>

\* a fan-out over one task from its call, and one over MaxTasks tasks from the
\* moment all but FanPending of them are running
InitFanOut ==
    \/ InitFanPrune(1)
    \/ InitFanDive(1)
    \/ InitFanPruneStarted(MaxTasks)
    \/ InitFanDiveStarted(MaxTasks)

NextFanOut ==
    \/ PruneBegin
    \/ WorkerStart
    \/ PruneWorkerFinish
    \/ PruneConsume
    \/ PruneWrite
    \/ DeepDiveBegin
    \/ DeepDiveWorkerFinish
    \/ DeepDiveConsume
    \/ DeepDiveReturn

SpecFanOut == InitFanOut /\ [][NextFanOut]_vars

-----------------------------------------------------------------------------
(* History Store called on its own: cleanup_inactive_jobs and save_suggested_jobs *)

\* the matches handed to save_suggested_jobs: with all fields, with some, with none
MatchLists == {
    <<>>,
    <<[company |-> "n", role |-> "q", refnr |-> RefX]>>,
    <<[company |-> "n"], [reason |-> "why"]>>,
    <<[company |-> "n", role |-> "q", refnr |-> RefY],
      [company |-> "n", role |-> "q", refnr |-> RefX]>> }

\* the detail endpoint: X is live, Y is gone, "N/A" is not found
HistSite ==
    [r \in {RefX, RefY, RefNA} |->
        IF r = RefX THEN LiveOutcome
        ELSE IF r = RefY THEN NoTagOutcome
        ELSE CHOOSE o \in SiteOutcomes : o.kind = "HTTPError"]

InitHist ==
    /\ InitAggIdle
    /\ hist_file \in {f \in HistFiles : Len(LoadHistory(f)) < MaxFileLen}
    /\ site = HistSite
    /\ past_jobs = <<>>
    /\ active_jobs = <<>>
    /\ prune_log = <<>>
    /\ hist_pc = "idle"
    /\ save_log = <<>>
    /\ PoolIdle
    /\ RunIdle

\* save_suggested_jobs called on its own
SaveCall ==
    /\ run_pc = "none"
    /\ hist_pc \in {"idle", "returned", "raised"}
    /\ Len(save_log) < MaxSaveCalls
    /\ \E matches \in MatchLists :
         /\ Len(LoadHistory(hist_file)) + Len(matches) <= MaxFileLen
         /\ SaveStep(matches)
    /\ UNCHANGED <<past_jobs, active_jobs, prune_log, hist_pc, poolVars, aggVars, site,
                   runVars>>

NextHist ==
    \/ PruneBegin
    \/ WorkerStart
    \/ PruneWorkerFinish
    \/ PruneConsume
    \/ PruneWrite
    \/ SaveCall

SpecHist == InitHist /\ [][NextHist]_vars

-----------------------------------------------------------------------------
(* Properties of the merge step *)

\* the trimmed reference identifier of a listing, <<>> when missing or blank
IdOf(job) == strip(IF "refnr" \in DOMAIN job THEN job.refnr ELSE <<>>)

\* a normalized date as a number yyyymmdd, 0 for the empty date
DateNum(job) ==
    LET nd == parse_date(IF "aktuelleVeroeffentlichungsdatum" \in DOMAIN job
                         THEN job.aktuelleVeroeffentlichungsdatum ELSE <<>>)
    IN  IF nd = <<>> THEN 0
        ELSE 10000 * NumVal(SubSeq(nd, 1, 4)) + 100 * NumVal(SubSeq(nd, 6, 7))
             + NumVal(SubSeq(nd, 9, 10))

IdsIn(jobs) == {IdOf(jobs[i]) : i \in 1..Len(jobs)} \ {<<>>}

SameId(jobs, k) == {i \in 1..Len(jobs) : IdOf(jobs[i]) = k}

\* the first-seen listing among those of identifier k with the greatest date
FirstLatest(jobs, k) ==
    CHOOSE i \in SameId(jobs, k) :
        /\ \A j \in SameId(jobs, k) : DateNum(jobs[j]) <= DateNum(jobs[i])
        /\ \A j \in SameId(jobs, k) : j < i => DateNum(jobs[j]) < DateNum(jobs[i])

\* C1: the merge result holds exactly one entry per distinct non-empty trimmed
\* identifier of the input, and that entry is the first-seen listing among those
\* of the identifier with the greatest normalized publication date.
C1_MergeKeepsFirstLatest ==
    agg_pc = "done" =>
        /\ {deduped[i].key : i \in 1..Len(deduped)} = IdsIn(raw_jobs)
        /\ Len(deduped) = Cardinality(IdsIn(raw_jobs))
        /\ \A i \in 1..Len(deduped) :
               deduped[i].job = raw_jobs[FirstLatest(raw_jobs, deduped[i].key)]

\* a merge that replaced an earlier listing by a later-dated one, kept the
\* earlier of two different listings of equal date, and dropped a listing
\* without identifier
C1_Witness ==
    /\ agg_pc = "done"
    /\ \E i, j \in 1..Len(raw_jobs) :
          /\ i < j /\ IdOf(raw_jobs[i]) = IdOf(raw_jobs[j]) /\ IdOf(raw_jobs[i]) # <<>>
          /\ DateNum(raw_jobs[i]) < DateNum(raw_jobs[j])
          /\ \E d \in 1..Len(deduped) : deduped[d].job = raw_jobs[j]
    /\ \E i, j \in 1..Len(raw_jobs) :
          /\ i < j /\ IdOf(raw_jobs[i]) = IdOf(raw_jobs[j]) /\ IdOf(raw_jobs[i]) # <<>>
          /\ DateNum(raw_jobs[i]) = DateNum(raw_jobs[j]) /\ raw_jobs[i] # raw_jobs[j]
          /\ \E d \in 1..Len(deduped) : deduped[d].job = raw_jobs[i]
    /\ \E i \in 1..Len(raw_jobs) : IdOf(raw_jobs[i]) = <<>>

HasId(job) == IdOf(job) # <<>>

NoIdListings == {Tag(l, "") : l \in {c \in Catalogue : ~HasId(c)}}

InsertAt(q, p, x) == SubSeq(q, 1, p - 1) \o <<x>> \o SubSeq(q, p, Len(q))

RemoveAt(q, p) == SubSeq(q, 1, p - 1) \o SubSeq(q, p + 1, Len(q))

\* C2: a listing without a non-empty trimmed identifier never appears in the
\* merge result, and inserting or removing such listings anywhere in the input
\* leaves the merge result unchanged.
C2_NoIdListingsAreInert ==
    agg_pc = "done" =>
        /\ \A i \in 1..Len(deduped) : HasId(deduped[i].job) /\ deduped[i].key # <<>>
        /\ Dedup(SelectSeq(raw_jobs, HasId)) = deduped
        /\ \A p \in 1..Len(raw_jobs) :
               ~HasId(raw_jobs[p]) => Dedup(RemoveAt(raw_jobs, p)) = deduped
        /\ \A p \in 1..(Len(raw_jobs) + 1) : \A x \in NoIdListings :
               Dedup(InsertAt(raw_jobs, p, x)) = deduped

\* a merge of a sequence holding a blank identifier, a missing identifier and
\* two listings of one identifier
C2_Witness ==
    /\ agg_pc = "done"
    /\ \E i \in 1..Len(raw_jobs) : "refnr" \notin DOMAIN raw_jobs[i]
    /\ \E i \in 1..Len(raw_jobs) : "refnr" \in DOMAIN raw_jobs[i]
                                     /\ raw_jobs[i].refnr # <<>> /\ ~HasId(raw_jobs[i])
    /\ \E i, j \in 1..Len(raw_jobs) : i # j /\ HasId(raw_jobs[i])
                                        /\ IdOf(raw_jobs[i]) = IdOf(raw_jobs[j])
    /\ Len(deduped) = 1

-----------------------------------------------------------------------------
(* Properties of the paging *)

RequestsOf(t) == {i \in 1..Len(requests) : requests[i].term_i = t}

TermFailed(t) == \E i \in RequestsOf(t) : ~requests[i].ok

TermFinished(t) == t < term_i \/ agg_pc \in {"merge", "done"}

\* ceil(n / d) for n >= 0, by its defining inequalities
CeilDiv(n, d) == CHOOSE k \in 0..n : d * k >= n /\ d * (k - 1) < n

\* the pages the total reported for term t calls for (1 while none is known)
PagesCalledFor(t) ==
    IF term_total[t] < 0 THEN 1 ELSE Max(1, CeilDiv(term_total[t], PageSize))

\* C3 as stated: every finished term was requested exactly
\* ceil(totalResultCount / 100) pages, minimum 1.
C3_ExactPagesAlways ==
    \A t \in 1..Len(terms) :
        TermFinished(t) => Cardinality(RequestsOf(t)) = PagesCalledFor(t)

\* C3 amended: a term none of whose requests failed was requested exactly
\* ceil(T / 100) pages (minimum 1), T being the total returned with its first
\* page. A failed request is the only failed one and the last request of its
\* term, so such a term received fewer pages than ceil(T / 100) (none when the
\* first request failed). A finished term was requested at least one page, and
\* no term more than ceil(T / 100).
C3_ExactPagesUnlessFailed ==
    \A t \in 1..Len(terms) :
        /\ Cardinality(RequestsOf(t)) <= PagesCalledFor(t)
        /\ TermFinished(t) => Cardinality(RequestsOf(t)) >= 1
        /\ TermFinished(t) /\ ~TermFailed(t) =>
               Cardinality(RequestsOf(t)) = PagesCalledFor(t)
        /\ TermFailed(t) =>
               /\ TermFinished(t)
               /\ \A i \in RequestsOf(t) :
                      requests[i].ok <=> \E j \in RequestsOf(t) : j > i
               /\ Cardinality({i \in RequestsOf(t) : requests[i].ok}) < PagesCalledFor(t)

\* a term that was paged to the end over three pages, and a term whose last
\* page request failed after as many requests as its total calls for
C3_Witness ==
    /\ \E t \in 1..Len(terms) :
          /\ TermFinished(t) /\ ~TermFailed(t)
          /\ term_total[t] = 201
          /\ Cardinality(RequestsOf(t)) = 3
    /\ \E t \in 1..Len(terms) :
          /\ TermFailed(t)
          /\ Cardinality(RequestsOf(t)) = PagesCalledFor(t)
          /\ Cardinality(RequestsOf(t)) >= 2

IsPrefix(a, b) == Len(a) <= Len(b) /\ SubSeq(b, 1, Len(a)) = a

\* C8: a failed page request ends the paging of its term only: the listings
\* accumulated so far stay, no further page of the term is requested, the next
\* term (if any) is paged from page 1, and after the last term the run goes on
\* to the merge.
C8_FailureEndsTermOnly ==
    /\ [][ /\ IsPrefix(raw_jobs, raw_jobs')
           /\ (Len(requests') = Len(requests) + 1 /\ ~requests'[Len(requests')].ok) =>
                 /\ raw_jobs' = raw_jobs
                 /\ term_i < Len(terms) =>
                        term_i' = term_i + 1 /\ page' = 1 /\ agg_pc' = "paging"
                 /\ term_i = Len(terms) => agg_pc' = "merge" ]_vars
    /\ [](\A i \in 1..Len(requests) :
            /\ (~requests[i].ok /\ i < Len(requests)) =>
                  /\ requests[i + 1].term_i = requests[i].term_i + 1
                  /\ requests[i + 1].page = 1
            /\ (i = 1 \/ requests[i].page = 1) =>
                  requests[i].term_i = (IF i = 1 THEN 1 ELSE requests[i - 1].term_i + 1))
    /\ [](agg_pc \in {"merge", "done"} =>
            \A t \in 1..Len(terms) :
                \E i \in RequestsOf(t) : requests[i].page = 1)

\* a finished run in which page 2 of the first term failed after page 1 had
\* delivered a listing, and the second term was paged
C8_Witness ==
    /\ agg_pc = "done"
    /\ Len(terms) = 2
    /\ \E i \in 1..Len(requests) :
          /\ requests[i] = [term_i |-> 1, page |-> 2, ok |-> FALSE]
          /\ i < Len(requests) /\ requests[i + 1].ok
    /\ Len(raw_jobs) >= 2
    /\ raw_jobs[1]["_query_term"] = terms[1]
    /\ raw_jobs[Len(raw_jobs)]["_query_term"] = terms[2]

-----------------------------------------------------------------------------
(* Properties of the pipeline *)

\* the deep dive has been left, by a return or by an exception
DeepDiveOver ==
    \/ run_pc \in {"select", "report", "done"}
    \/ run_end \in {"no details", "no selection", "stage 2 failed",
                     "exception in fetch_deep_dive_details"}

\* the detail page of this identifier cannot be fetched
FetchFails(refnr) == site[refnr].kind # "ok"

\* C9: in the Deep-Dive Fetcher a failed detail fetch for one shortlisted
\* identifier yields a candidate for that identifier with empty description
\* fields; the candidate is not removed and the batch is not aborted, so
\* every shortlisted identifier of the summary has its candidate once the
\* deep dive is over.
C9_FailedFetchKeepsBatch ==
    DeepDiveOver =>
        /\ run_end # "exception in fetch_deep_dive_details"
        /\ Len(deep_dive_candidates) = Len(JobsToFetch)
        /\ \A i \in 1..Len(JobsToFetch) :
              /\ deep_dive_candidates[i].refnr = JobsToFetch[i].refnr
              /\ FetchFails(JobsToFetch[i].refnr) =>
                    /\ deep_dive_candidates[i].description_full = ""
                    /\ deep_dive_candidates[i].vertragsdauer_detail = ""

AllFailed(log) ==
    /\ Len(log) = LLM_ATTEMPTS
    /\ \A i \in 1..Len(log) : ~log[i].ok

Succeeded(log) == Len(log) > 0 /\ log[Len(log)].ok

\* the attempts of one stage: at most three, none after a success, and the
\* stage's result is the answer of the successful attempt
StageAttemptsOK(log, result) ==
    /\ Len(log) <= 3
    /\ \A i \in 1..(Len(log) - 1) : ~log[i].ok
    /\ Succeeded(log) => result = log[Len(log)].answer

\* C10: each LLM stage makes at most 3 attempts, returns the result of the
\* first attempt that succeeds without attempting again, and the run is
\* aborted with a non-zero exit by a stage exactly when all 3 attempts of
\* that stage have failed, never after fewer failures.
C10_ThreeAttemptsThenAbort ==
    /\ StageAttemptsOK(stage1_log, shortlist)
    /\ StageAttemptsOK(stage2_log, final_jobs)
    /\ Succeeded(stage1_log) => run_pc # "shortlist"
    /\ Succeeded(stage2_log) => run_pc # "select"
    /\ run_pc = "exited" =>
          /\ exit_code # 0
          /\ exit_code # -1
          /\ AllFailed(stage1_log) \/ AllFailed(stage2_log)
    /\ AllFailed(stage1_log) \/ AllFailed(stage2_log) => run_pc = "exited"
    /\ run_pc \in {"shortlist", "select"} => exit_code = -1

\* the Selection Stage has failed three times after the Shortlist Stage
\* succeeded on its third attempt, and the run has exited with status 1
C10_Witness ==
    /\ run_pc = "exited"
    /\ exit_code = 1
    /\ Len(stage1_log) = 3
    /\ ~stage1_log[1].ok /\ ~stage1_log[2].ok /\ stage1_log[3].ok
    /\ shortlist = stage1_log[3].answer
    /\ AllFailed(stage2_log)
    /\ reports = <<>>

\* the run has returned from generate_report without a report, after the
\* stages in upto and no other
EndedNormallyAfter(upto) ==
    /\ run_pc = "ended"
    /\ exit_code = 0
    /\ trace = upto
    /\ reports = <<>>
    /\ save_log = <<>>

\* the Deep-Dive Fetcher has returned to generate_report
DeepDiveReturned ==
    /\ \E i \in 1..Len(trace) : trace[i] = "deepdive"
    /\ run_pc \notin {"diving", "dive_raising"}
    /\ run_end # "exception in fetch_deep_dive_details"

\* C11: an empty shortlist, an empty deep-dive set or an empty final
\* selection ends the run normally at that point: no later stage is
\* entered, no report is written, the exit status is zero.
C11_EmptyResultEndsRun ==
    /\ Succeeded(stage1_log) /\ shortlist = <<>> =>
          /\ EndedNormallyAfter(<<"aggregator", "prune", "shortlist">>)
          /\ run_end = "no shortlist"
    /\ DeepDiveReturned /\ deep_dive_candidates = <<>> =>
          /\ EndedNormallyAfter(<<"aggregator", "prune", "shortlist", "deepdive">>)
          /\ run_end = "no details"
          /\ stage2_log = <<>>
    /\ Succeeded(stage2_log) /\ final_jobs = <<>> =>
          /\ EndedNormallyAfter(<<"aggregator", "prune", "shortlist", "deepdive",
                                  "selection">>)
          /\ run_end = "no selection"

\* the shortlist names only an identifier that is not in the summary: the
\* deep dive has returned no candidate and the run has ended with status 0
C11_Witness ==
    /\ run_end = "no details"
    /\ shortlist = <<RefZ>>
    /\ out_summary.candidates # <<>>
    /\ deep_dive_candidates = <<>>
    /\ exit_code = 0
    /\ run_pc = "ended"

StageOrder ==
    <<"aggregator", "prune", "shortlist", "deepdive", "selection", "report", "append">>

Entered(stage) == \E i \in 1..Len(trace) : trace[i] = stage

\* C12: in every pipeline run the stages are entered in the order
\* Aggregator, Shortlist Stage, Deep-Dive Fetcher, Selection Stage, Report
\* Renderer; the history is pruned before the Shortlist Stage starts and is
\* appended to only after the Report Renderer has written the reports.
C12_StageOrder ==
    /\ IsPrefix(trace, StageOrder)
    /\ Entered("prune") => agg_pc = "done" /\ out_summary # NoSummary
    /\ stage1_log # <<>> =>
          /\ Entered("shortlist")
          /\ hist_pc = "returned"
          /\ Len(prune_log) = 1
          /\ past_suggestions # [kind |-> "unset"]
    /\ Entered("deepdive") => Succeeded(stage1_log) /\ shortlist # <<>>
    /\ stage2_log # <<>> =>
          /\ Entered("selection")
          /\ DeepDiveReturned
          /\ deep_dive_candidates # <<>>
    /\ reports # <<>> => Entered("report") /\ Succeeded(stage2_log) /\ final_jobs # <<>>
    /\ save_log # <<>> =>
          /\ Entered("append")
          /\ reports = <<[format |-> "md", jobs |-> final_jobs],
                         [format |-> "html", jobs |-> final_jobs]>>
    /\ hist_file # (IF prune_log = <<>> THEN hist_file ELSE prune_log[1].file) =>
          save_log # <<>>

\* a run that went through every stage, pruned a history entry and appended
\* its matches
C12_Witness ==
    /\ run_pc = "done"
    /\ trace = StageOrder
    /\ Len(prune_log) = 1
    /\ prune_log[1].loaded # <<>>
    /\ Len(save_log) = 1
    /\ save_log[1].before = prune_log[1].file
    /\ Len(reports) = 2

\* cleanup_inactive_jobs has been entered and has not returned or raised
PruneInProgress == hist_pc \in {"pool", "raising"}

\* save_suggested_jobs is the next statement of the run
AppendInProgress == run_pc = "logging"

\* C13 as stated, the fetch stage being the run's search requests: prune and
\* append are never in progress together, the prune is over before the run
\* makes a search request, and the append comes after the reports.
C13_PruneBeforeAnyFetch ==
    /\ ~(PruneInProgress /\ AppendInProgress)
    /\ query_count > 0 => hist_pc \in {"returned", "raised"}
    /\ AppendInProgress \/ save_log # <<>> => Entered("report")

\* C13 (amended): within a pipeline run prune and append are never in
\* progress together: the prune starts after the Aggregator has returned and
\* is over before the Shortlist Stage and the Deep-Dive Fetcher start; the
\* append starts after the report files are written.
C13_PruneAndAppendApart ==
    /\ ~(PruneInProgress /\ AppendInProgress)
    /\ PruneInProgress =>
          /\ trace = <<"aggregator", "prune">>
          /\ agg_pc = "done" /\ query_count > 0
          /\ save_log = <<>> /\ reports = <<>>
    /\ Entered("shortlist") \/ Entered("deepdive") =>
          hist_pc = "returned" /\ Len(prune_log) = 1
    /\ AppendInProgress \/ save_log # <<>> =>
          /\ Entered("report") /\ Len(reports) = 2
          /\ hist_pc = "returned" /\ Len(prune_log) = 1
          /\ Running = {}

\* the append is about to run in a run whose prune checked an entry with
\* the worker pool
C13_Witness ==
    /\ AppendInProgress
    /\ Len(prune_log) = 1
    /\ prune_log[1].loaded # <<>>
    /\ save_log = <<>>
    /\ Len(reports) = 2

\* the Detail Fetcher calls in flight: one per task a worker is running
InFlight == Cardinality(Running)

\* C14: in the Deep-Dive Fetcher and in the History Store prune at most 10
\* Detail Fetcher calls are in flight at any moment, however many
\* identifiers are to be fetched.
C14_AtMostTenInFlight ==
    /\ InFlight <= 10
    /\ \A i \in Running : pool[i].detail = NotCalled /\ pool[i].res = [kind |-> "none"]
    /\ \A i \in 1..Len(pool) : pool[i].st = "queued" => pool[i].detail = NotCalled

\* ten fetches of a deep dive are in flight while further shortlisted
\* identifiers wait in the pool's queue
C14_Witness ==
    /\ run_pc = "diving"
    /\ Len(pool) > 10
    /\ InFlight = 10
    /\ Queued # {}

AllTasksDone == \A i \in 1..Len(pool) : pool[i].st = "done" /\ pool[i].res.kind # "none"

\* the pool holds the tasks of the prune (the deep dive has not replaced them)
PoolOfPrune == Entered("prune") /\ ~Entered("deepdive") /\ hist_pc # "idle"

\* C15: the fan-out stages are barriers. The Deep-Dive Fetcher returns, and
\* the Selection Stage starts, only after every spawned detail fetch has
\* completed; the prune writes the history file only after every liveness
\* check has completed; no worker of a stage is running when the next stage
\* begins.
C15_FanOutIsBarrier ==
    /\ DeepDiveReturned =>
          /\ AllTasksDone
          /\ Len(pool) = Len(JobsToFetch)
          /\ Len(deep_dive_candidates) = Len(pool)
    /\ stage2_log # <<>> => DeepDiveReturned
    /\ PoolOfPrune /\ hist_pc = "returned" =>
          /\ AllTasksDone
          /\ Len(pool) = Len(past_jobs)
          /\ hist_file = DumpHistory(active_jobs) \/ hist_file = [kind |-> "missing"]
    /\ hist_pc \in {"pool", "raising", "raised"} =>
          /\ prune_log = <<>>
          /\ LoadHistory(hist_file) = past_jobs
    /\ run_pc \notin {"aggregate", "pruning", "diving", "dive_raising"} => Running = {}

\* the Selection Stage is about to start after a deep dive of two tasks
\* that were running at the same time
C15_Witness ==
    /\ run_pc = "select"
    /\ stage2_log = <<>>
    /\ Len(pool) = 2
    /\ AllTasksDone
    /\ Len(deep_dive_candidates) = 2

-----------------------------------------------------------------------------
(* Properties of the History Store append *)

\* the entry that append is to write for a match
EntryFor(m) ==
    [date |-> RunTimestamp,
     company |-> IF "company" \in DOMAIN m THEN m.company ELSE "N/A",
     role |-> IF "role" \in DOMAIN m THEN m.role ELSE "N/A",
     refnr |-> IF "refnr" \in DOMAIN m THEN m.refnr ELSE <<"N", "/", "A">>]

\* C16: an append that completes leaves every entry already in the history
\* file present and in its original order, adds exactly one new entry per
\* incoming match after them, in match order and with absent fields set to
\* "N/A", and writes that full list; it removes and deduplicates nothing.
C16_AppendKeepsAndAdds ==
    \A k \in 1..Len(save_log) :
        LET e == save_log[k]
            old == IF e.before.kind = "json" THEN e.before.data ELSE <<>>
        IN  ~e.raised =>
              /\ e.after.kind = "json"
              /\ Len(e.after.data) = Len(old) + Len(e.matches)
              /\ \A i \in 1..Len(old) : e.after.data[i] = old[i]
              /\ \A i \in 1..Len(e.matches) :
                    e.after.data[Len(old) + i] = EntryFor(e.matches[i])
              /\ k = Len(save_log) /\ hist_pc \in {"idle", "raised"} => hist_file = e.after

\* an append of a match without role and identifier and of a match without
\* any of the fields to a file that already holds an entry
C16_Witness ==
    /\ Len(save_log) = 1
    /\ ~save_log[1].raised
    /\ save_log[1].before.kind = "json"
    /\ Len(save_log[1].before.data) = 1
    /\ Len(save_log[1].matches) = 2
    /\ DOMAIN save_log[1].matches[1] = {"company"}
    /\ "company" \notin DOMAIN save_log[1].matches[2]
    /\ Len(hist_file.data) = 3
    /\ hist_file.data[3].refnr = <<"N", "/", "A">>

-----------------------------------------------------------------------------
(* Properties of the history over a pipeline run *)

RefnrOf(e) == IF "refnr" \in DOMAIN e THEN e.refnr ELSE <<>>

\* C17: previously suggested jobs are not repeated: the final matches of a
\* run, and so the entries it appends, never include a listing whose
\* identifier is in the history as pruned at the start of the run, and the
\* history file never holds two entries with the same identifier.
C17_NoRepeatedSuggestion ==
    /\ run_pc \in {"report", "logging", "done"} =>
          \A i \in 1..Len(final_jobs) : \A j \in 1..Len(prune_log[1].ret) :
              RefnrOf(final_jobs[i]) # RefnrOf(prune_log[1].ret[j])
    /\ \A k \in 1..Len(save_log) :
          \A i \in 1..Len(save_log[k].matches) :
              \A j \in 1..Len(LoadHistory(save_log[k].before)) :
                  RefnrOf(save_log[k].matches[i]) # RefnrOf(LoadHistory(save_log[k].before)[j])
    /\ \A i, j \in 1..Len(LoadHistory(hist_file)) :
          i # j => RefnrOf(LoadHistory(hist_file)[i]) # RefnrOf(LoadHistory(hist_file)[j])

-----------------------------------------------------------------------------
(* Properties of the History Store on a damaged file *)

\* the file exists and its content is not a JSON document
NotJson(file) == file.kind \in {"malformed", "undecodable"}

\* C18: a history file with malformed JSON is never fatal: prune and append
\* both treat it as an empty list and complete normally; the prune returns
\* the empty list, the append writes only the new entries.
C18_MalformedHistoryIsEmpty ==
    /\ hist_pc = "raised" => ~NotJson(hist_file)
    /\ \A k \in 1..Len(save_log) :
          NotJson(save_log[k].before) =>
              /\ ~save_log[k].raised
              /\ save_log[k].after =
                   [kind |-> "json",
                    data |-> [i \in 1..Len(save_log[k].matches) |->
                                 EntryFor(save_log[k].matches[i])]]
    /\ \A k \in 1..Len(prune_log) :
          prune_log[k].loaded = <<>> => prune_log[k].ret = <<>>

-----------------------------------------------------------------------------
(* Properties of the Search Fetcher *)

HasField(payload, k) == k \in DOMAIN payload

ListingsOf(payload) ==
    IF HasField(payload, "stellenangebote") THEN payload.stellenangebote ELSE <<>>

\* the listings returned are those of the payload, each tagged with the term
ReturnsListingsOf(payload, ret) ==
    /\ Len(ret.jobs) = Len(ListingsOf(payload))
    /\ \A i \in 1..Len(ret.jobs) :
          /\ \A k \in DOMAIN ListingsOf(payload)[i] :
                ret.jobs[i][k] = ListingsOf(payload)[i][k]
          /\ ret.jobs[i]["_query_term"] = terms[requests[Len(requests)].term_i]

\* C19 as stated: fetchPage returns no listing when the response has no
\* results field, returns the response's total-count field as the total
\* when the field is present, and the number of listings on the page only
\* when the field is missing.
C19_TotalIsFieldWhenPresent ==
    last_fetch.kind = "ok" =>
        /\ ReturnsListingsOf(last_fetch.payload, last_fetch.ret)
        /\ last_fetch.ret.max_results =
             IF HasField(last_fetch.payload, "maxErgebnisse")
             THEN last_fetch.payload.maxErgebnisse
             ELSE Len(last_fetch.ret.jobs)

\* C19 (amended): fetchPage returns no listing when the response has no
\* results field, returns the total-count field as the total when it is
\* present and not zero, and the number of listings on the page when the
\* field is missing or zero.
C19_TotalIsFieldUnlessZero ==
    last_fetch.kind = "ok" =>
        /\ ReturnsListingsOf(last_fetch.payload, last_fetch.ret)
        /\ last_fetch.ret.max_results =
             IF HasField(last_fetch.payload, "maxErgebnisse")
                /\ last_fetch.payload.maxErgebnisse # 0
             THEN last_fetch.payload.maxErgebnisse
             ELSE Len(last_fetch.ret.jobs)

\* a response that reports a total of 0 next to one listing: the total
\* returned is 1, and the term is paged with it
C19_Witness ==
    /\ last_fetch.kind = "ok"
    /\ HasField(last_fetch.payload, "maxErgebnisse")
    /\ last_fetch.payload.maxErgebnisse = 0
    /\ Len(ListingsOf(last_fetch.payload)) = 1
    /\ last_fetch.ret.max_results = 1
    /\ requests # <<>>
    /\ requests[Len(requests)].page = 1
    /\ term_total[requests[Len(requests)].term_i] = 1

-----------------------------------------------------------------------------
(* Properties of the page order *)

\* the requests made for term t, in the order they were made
RequestSeqOf(t) == SelectSeq(requests, LAMBDA r : r.term_i = t)

\* C20: within a search term the pages are requested in increasing order
\* from page 1, one at a time: page n+1 is requested only after page n has
\* returned successfully, and no page number is requested twice or skipped.
C20_PagesInOrder ==
    /\ \A t \in 1..Len(terms) :
          \A i \in 1..Len(RequestSeqOf(t)) :
              /\ RequestSeqOf(t)[i].page = i
              /\ i < Len(RequestSeqOf(t)) => RequestSeqOf(t)[i].ok
    /\ \A i, j \in 1..Len(requests) :
          i < j => requests[i].term_i <= requests[j].term_i
    /\ agg_pc = "paging" => page = Len(RequestSeqOf(term_i)) + 1
    /\ query_count = Cardinality({i \in 1..Len(requests) : requests[i].ok})

\* the first term was paged through pages 1, 2 and 3, each returning before
\* the next was requested
C20_Witness ==
    /\ Len(RequestSeqOf(1)) = 3
    /\ \A i \in 1..3 : RequestSeqOf(1)[i] = [term_i |-> 1, page |-> i, ok |-> TRUE]
    /\ term_total[1] = 201

\* ---------------------------------------------------------------------
\* Properties of the Deep-Dive Fetcher's selection

ShortlistIds == {shortlist[k] : k \in 1..Len(shortlist)}

SummaryIds == {out_summary.candidates[i].refnr : i \in 1..Len(out_summary.candidates)}

CandidatesFor(r) ==
    Cardinality({i \in 1..Len(deep_dive_candidates) : deep_dive_candidates[i].refnr = r})

\* C21: when fetch_deep_dive_details has returned, its result holds exactly
\* one candidate for every summary whose refnr is in the shortlist and
\* none for any other summary; a shortlist refnr that no summary carries
\* starts no detail fetch and gives no candidate, and a refnr repeated in
\* the shortlist gives one candidate.
C21_OnePerShortlistedSummary ==
    DeepDiveReturned =>
        /\ \A r \in SummaryIds :
             CandidatesFor(r) = IF r \in ShortlistIds THEN 1 ELSE 0
        /\ \A i \in 1..Len(deep_dive_candidates) :
             deep_dive_candidates[i].refnr \in SummaryIds \cap ShortlistIds
        /\ \A i \in 1..Len(pool) :
             /\ pool[i].item.refnr \in SummaryIds \cap ShortlistIds
             /\ pool[i].detail.called => pool[i].detail.refnr = pool[i].item.refnr
        /\ Len(pool) = Cardinality(SummaryIds \cap ShortlistIds)

C21_Witness ==
    /\ DeepDiveReturned
    /\ shortlist = <<RefA, RefA>>
    /\ Len(out_summary.candidates) = 2
    /\ Len(deep_dive_candidates) = 1
    /\ deep_dive_candidates[1].refnr = RefA

\* ---------------------------------------------------------------------
\* Order of the results of a fan-out

\* position of the summary with refnr r in the summary list
SummaryPos(r) ==
    CHOOSE i \in 1..Len(out_summary.candidates) : out_summary.candidates[i].refnr = r

\* position of the entry e in the loaded history
HistoryPos(e) == CHOOSE i \in 1..Len(past_jobs) : past_jobs[i] = e

\* a task submitted later has completed while an earlier one is still running
CompletedOutOfOrder ==
    \E i, j \in 1..Len(pool) : i < j /\ pool[i].st = "running" /\ pool[j].st = "done"

\* C22: whatever order the workers complete in, the candidates collected by
\* fetch_deep_dive_details stand in the relative order of their summaries in
\* the summary list, and the entries kept by cleanup_inactive_jobs (and
\* written to the file) stand in their order in the loaded file.
C22_ResultsInSubmissionOrder ==
    /\ \A i, j \in 1..Len(deep_dive_candidates) :
         /\ \E k \in 1..Len(out_summary.candidates) :
              out_summary.candidates[k].refnr = deep_dive_candidates[i].refnr
         /\ i < j => SummaryPos(deep_dive_candidates[i].refnr)
                       < SummaryPos(deep_dive_candidates[j].refnr)
    /\ \A i, j \in 1..Len(active_jobs) :
         /\ \E k \in 1..Len(past_jobs) : past_jobs[k] = active_jobs[i]
         /\ i < j => HistoryPos(active_jobs[i]) < HistoryPos(active_jobs[j])
    /\ (hist_pc = "returned" /\ hist_file.kind = "json") => hist_file.data = active_jobs

\* the third fetch of a deep dive completed before the second, and the
\* result holds the first candidate only
C22_Witness ==
    /\ run_pc = "diving"
    /\ Len(pool) >= 3
    /\ pool[2].st = "running"
    /\ pool[3].st = "done"
    /\ Len(deep_dive_candidates) = 1
    /\ deep_dive_candidates[1].refnr = out_summary.candidates[1].refnr

\* ---------------------------------------------------------------------
\* Prune and failed detail fetches

\* a call of cleanup_inactive_jobs that loaded entries is over
PruneOver == hist_pc \in {"returned", "raised"} /\ past_jobs # <<>>

FileEntries == IF hist_file.kind = "json" THEN hist_file.data ELSE <<>>

FetchFailed(e) == HasRefnr(e) /\ site[e.refnr].kind \in TransportFailures

\* C23: the prune treats a detail fetch that failed at transport level like
\* a listing that is gone: the entry is not in the history file after the
\* prune, and a prune in which every detail fetch fails leaves the file
\* holding the empty list.
C23_FailedFetchIsRemoved ==
    PruneOver =>
        /\ \A i \in 1..Len(past_jobs) :
             FetchFailed(past_jobs[i]) =>
                 ~\E k \in 1..Len(FileEntries) : FileEntries[k] = past_jobs[i]
        /\ (\A i \in 1..Len(past_jobs) : FetchFailed(past_jobs[i]))
               => hist_file = DumpHistory(<<>>)

\* the same for the failures fetch_job_details turns into a DetailContext
CaughtFailureIsRemoved ==
    PruneOver =>
        /\ \A i \in 1..Len(past_jobs) :
             (HasRefnr(past_jobs[i]) /\ site[past_jobs[i].refnr].kind \in CaughtByFetchJobDetails
                /\ hist_pc = "returned") =>
                 ~\E k \in 1..Len(FileEntries) : FileEntries[k] = past_jobs[i]
        /\ (\A i \in 1..Len(past_jobs) :
               HasRefnr(past_jobs[i]) /\ site[past_jobs[i].refnr].kind \in CaughtByFetchJobDetails)
               => hist_file = DumpHistory(<<>>)

\* ---------------------------------------------------------------------
\* The merge under permutation of its input

\* the longest input of which every permutation is merged
MaxPermuted == 3

\* the permutations of 1..n
InputOrders ==
    [n \in 0..MaxPermuted |->
        {f \in [1..n -> 1..n] : \A i, j \in 1..n : f[i] = f[j] => i = j}]

Permuted(jobs, f) == [i \in 1..Len(jobs) |-> jobs[f[i]]]

\* the listings at positions p and p + 1 arrive in the other order
Exchanged(jobs, p) ==
    [i \in 1..Len(jobs) |-> IF i = p THEN jobs[p + 1] ELSE IF i = p + 1 THEN jobs[p] ELSE jobs[i]]

\* identifier and retained normalized date of every entry of a merge result
IdDates(dd) == {[key |-> dd[i].key, date |-> PubDate(dd[i].job)] : i \in 1..Len(dd)}

RetainedJobs(dd) == {dd[i].job : i \in 1..Len(dd)}

\* C24: the set of identifiers of the merge result and the normalized
\* publication date retained for each identifier are the same for every
\* permutation of the input sequence: for every exchange of two neighbouring
\* listings of an input of any length (every permutation is a chain of such
\* exchanges), and for every permutation of an input of up to MaxPermuted
\* listings.
C24_MergeIsOrderIndependent ==
    agg_pc = "done" =>
        /\ \A p \in 1..(Len(raw_jobs) - 1) :
               IdDates(Dedup(Exchanged(raw_jobs, p))) = IdDates(deduped)
        /\ Len(raw_jobs) <= MaxPermuted =>
               \A f \in InputOrders[Len(raw_jobs)] :
                   IdDates(Dedup(Permuted(raw_jobs, f))) = IdDates(deduped)

\* a merge of two different listings of one identifier and equal normalized
\* date next to an older one: another arrival order retains the other record
C24_Witness ==
    /\ agg_pc = "done"
    /\ Len(raw_jobs) = 3
    /\ \E i, j \in 1..Len(raw_jobs) :
          /\ IdOf(raw_jobs[i]) = IdOf(raw_jobs[j]) /\ HasId(raw_jobs[i])
          /\ DateNum(raw_jobs[i]) < DateNum(raw_jobs[j])
    /\ \E f \in InputOrders[Len(raw_jobs)] :
          /\ RetainedJobs(Dedup(Permuted(raw_jobs, f))) # RetainedJobs(deduped)
          /\ IdDates(Dedup(Permuted(raw_jobs, f))) = IdDates(deduped)

\* ---------------------------------------------------------------------
\* Termination of the paging

\* while a term is paged, its page limit stays what the first successful
\* response of the term made it; the limit of the last term is kept when the
\* loop is left
LimitKept ==
    (agg_pc = "paging" /\ agg_pc' = "paging" /\ term_i' = term_i /\ total_pages # 0)
        => total_pages' = total_pages

LimitFromFirstResponse ==
    /\ total_pages # 0 =>
          /\ term_total[term_i] >= 0
          /\ total_pages = Max(1, CeilDiv(term_total[term_i], PageSize))
          /\ page <= total_pages
    /\ total_pages = 0 => term_total[term_i] < 0

\* C25: the paging terminates. The page limit of a term is set from the
\* first successful response of the term and no later response changes it;
\* no term gets more requests than that limit (one while no response was
\* successful), whatever totals, listings and failures the Search Fetcher
\* produces; and every run reaches the merge step.
C25_PagingTerminates ==
    /\ [][LimitKept]_vars
    /\ [](LimitFromFirstResponse)
    /\ [](\A t \in 1..Len(terms) : Cardinality(RequestsOf(t)) <= PagesCalledFor(t))
    /\ <>(agg_pc = "merge")

\* the merge step is reached after a term was paged over three pages, the
\* last of which reported a total other than the first, and a term failed
C25_Witness ==
    /\ agg_pc = "merge"
    /\ \E t \in 1..Len(terms) : TermFailed(t)
    /\ term_total[Len(terms)] = 201
    /\ Cardinality(RequestsOf(Len(terms))) = 3
    /\ last_fetch.kind = "ok"
    /\ last_fetch.ret.max_results \notin {-1, 201}

\* ---------------------------------------------------------------------
\* The history of a run that does not report

\* a stage answered with the empty list, or the deep dive returned no candidate
EmptyResult ==
    \/ Succeeded(stage1_log) /\ stage1_log[Len(stage1_log)].answer = <<>>
    \/ DeepDiveReturned /\ deep_dive_candidates = <<>>
    \/ Succeeded(stage2_log) /\ stage2_log[Len(stage2_log)].answer = <<>>

\* all attempts of an LLM stage have failed
RetriesExhausted == AllFailed(stage1_log) \/ AllFailed(stage2_log)

\* the history file is as the prune of this run left it
FileAsPruned ==
    /\ Len(prune_log) = 1
    /\ hist_file = prune_log[1].file
    /\ hist_file.kind = "json" => hist_file.data = prune_log[1].ret

\* a step that writes the history file is the write of the prune or the
\* append of a run whose two report files are written
HistoryWriters ==
    hist_file' # hist_file =>
        \/ run_pc = "pruning" /\ hist_pc = "pool" /\ hist_pc' = "returned"
        \/ /\ run_pc = "logging" /\ Entered("report")
           /\ Len(reports) = 2 /\ reports[1].format = "md" /\ reports[2].format = "html"
           /\ final_jobs # <<>>

\* C26: a run that ends early (empty shortlist, empty deep-dive set, empty
\* final selection) or aborts on exhausted LLM retries appends nothing to
\* the history and writes no report: the file stays as the prune of the run
\* left it. The history file is written only by the prune and by the append
\* of a run that reached the report stage and wrote both report files.
C26_EarlyEndAppendsNothing ==
    /\ []((EmptyResult \/ RetriesExhausted) =>
            /\ run_pc \in {"ended", "exited"}
            /\ save_log = <<>>
            /\ reports = <<>>
            /\ ~Entered("report") /\ ~Entered("append")
            /\ FileAsPruned)
    /\ [](save_log # <<>> => Len(reports) = 2 /\ Entered("report"))
    /\ [][HistoryWriters]_vars

\* a run aborted by the Selection Stage after the prune rewrote a history
\* of one live entry
C26_Witness ==
    /\ run_pc = "exited"
    /\ AllFailed(stage2_log)
    /\ hist_file.kind = "json"
    /\ hist_file.data # <<>>
    /\ prune_log[1].loaded = hist_file.data
    /\ save_log = <<>>

\* ---------------------------------------------------------------------
\* The summaries and the run metadata

\* the summaries are as many as the merged listings, at most as many as the
\* raw listings, and their identifiers are pairwise distinct and non-empty
SummariesCounted ==
    agg_pc = "done" =>
        /\ out_summary.candidate_count = Len(out_summary.candidates)
        /\ out_summary.deduped_count = out_summary.candidate_count
        /\ out_summary.deduped_count = Len(deduped)
        /\ out_summary.candidate_count <= out_summary.raw_result_count
        /\ out_summary.raw_result_count = Len(raw_jobs)
        /\ \A i, j \in 1..Len(out_summary.candidates) :
               out_summary.candidates[i].refnr = out_summary.candidates[j].refnr => i = j
        /\ \A i \in 1..Len(out_summary.candidates) :
               strip(out_summary.candidates[i].refnr) = deduped[i].key

\* C27: every summary the Aggregator emits carries as its identifier the
\* trimmed, non-empty key under which its listing was merged; the summary
\* identifiers are pairwise distinct, and candidate_count = deduped_count =
\* number of summaries <= raw_result_count.
C27_SummaryCarriesMergeKey ==
    agg_pc = "done" =>
        /\ Len(out_summary.candidates) = Len(deduped)
        /\ \A i \in 1..Len(out_summary.candidates) :
               /\ out_summary.candidates[i].refnr = deduped[i].key
               /\ out_summary.candidates[i].refnr # <<>>
               /\ out_summary.candidates[i].refnr = strip(out_summary.candidates[i].refnr)
        /\ \A i, j \in 1..Len(out_summary.candidates) :
               out_summary.candidates[i].refnr = out_summary.candidates[j].refnr => i = j
        /\ out_summary.candidate_count = out_summary.deduped_count
        /\ out_summary.candidate_count = Len(out_summary.candidates)
        /\ out_summary.candidate_count <= out_summary.raw_result_count

====
